---- MODULE Spec2Model ----
(***************************************************************************)
(* StormShadow: the tagged firewall-rule ledger, its heartbeat store and   *)
(* garbage collector (utils/network/iptables.py), the attack session       *)
(* state machine (utils/attack/AttackSession.py) and the orchestrator's    *)
(* shutdown (utils/core/stormshadow.py).                                   *)
(*                                                                         *)
(* Text is modelled as a sequence of symbols.  A symbol is either one      *)
(* character of a variable field (a digit of a session id, of a timestamp, *)
(* of a port), a separator the code looks for (space, colon, double quote) *)
(* or a fixed phrase of the rule text that holds no id character.  The     *)
(* code's string operations (in, split, strip, replace, startswith, int,   *)
(* the regular expression) are the operators below on such sequences.      *)
(***************************************************************************)
EXTENDS Integers, Sequences, FiniteSets, TLC

(***************************************************************************)
(* Bounds of the model.                                                    *)
(***************************************************************************)
MaxTicks == 1
MaxRules == 4
TimeStep == 30

(***************************************************************************)
(* Program constants.                                                      *)
(***************************************************************************)
HALF_TTL_FLOOR == 60
DST_PORT == 5060
QUEUE_NUM == 1

SP == " "
Q == "\""
COLON == ":"
COMMENT_PREFIX == "Stormshadow"
NOT_DELETE == "NOT_DELETE"
STORMSHADOW_CHAIN == <<"STORMSHADOW">>
STORMSHADOW_NAT_CHAIN == <<"STORMSHADOW", "-NAT">>
M_COMMENT == <<"-m comment", SP, "--comment">>

None == [ok |-> FALSE]

(***************************************************************************)
(* Session ids of the model: one is a substring of the other, and of the   *)
(* decimal text of some timestamps, ports and queue numbers.               *)
(***************************************************************************)
Suids == {<<"1">>, <<"1", "7">>}
TTLs == {TimeStep, 2 * TimeStep}

(***************************************************************************)
(* A local variable: the value v is computed once and the rest of the      *)
(* function body, F, reads it.                                             *)
(***************************************************************************)
With(v, F(_)) == CHOOSE y \in {F(x) : x \in {v}} : TRUE

(***************************************************************************)
(* String operations.                                                      *)
(***************************************************************************)
DigitSyms == <<"0", "1", "2", "3", "4", "5", "6", "7", "8", "9">>

RECURSIVE Dec(_)
Dec(n) ==
  IF n < 10 THEN <<DigitSyms[n + 1]>>
  ELSE Dec(n \div 10) \o <<DigitSyms[(n % 10) + 1]>>

DigitVal(c) == CHOOSE d \in 0..9 : DigitSyms[d + 1] = c

IsDigits(s) == Len(s) > 0 /\ \A i \in 1..Len(s) : \E d \in 1..10 : DigitSyms[d] = s[i]

RECURSIVE IntOf(_)
IntOf(s) ==
  IF Len(s) = 1 THEN DigitVal(s[1])
  ELSE With(SubSeq(s, 1, Len(s) - 1), LAMBDA rest : 10 * IntOf(rest) + DigitVal(s[Len(s)]))

Contains(s, p) ==
  \E i \in 0..(Len(s) - Len(p)) : \A j \in 1..Len(p) : s[i + j] = p[j]

StartsWith(s, p) == Len(s) >= Len(p) /\ \A j \in 1..Len(p) : s[j] = p[j]

\* index of the first occurrence of symbol c in s, 0 when there is none
FirstIndex(s, c) ==
  IF \E i \in 1..Len(s) : s[i] = c
  THEN CHOOSE i \in 1..Len(s) : s[i] = c /\ \A j \in 1..(i - 1) : s[j] # c
  ELSE 0

RECURSIVE Split(_, _)
Split(s, c) ==
  With(FirstIndex(s, c), LAMBDA i :
    IF i = 0 THEN <<s>>
    ELSE With(SubSeq(s, i + 1, Len(s)), LAMBDA rest :
           <<SubSeq(s, 1, i - 1)>> \o Split(rest, c)))

RECURSIVE Join(_, _)
Join(parts, c) ==
  IF Len(parts) = 0 THEN <<>>
  ELSE IF Len(parts) = 1 THEN parts[1]
  ELSE With(Tail(parts), LAMBDA rest : parts[1] \o <<c>> \o Join(rest, c))

RECURSIVE LStrip(_, _)
LStrip(s, cs) ==
  IF Len(s) > 0 /\ s[1] \in cs THEN With(Tail(s), LAMBDA rest : LStrip(rest, cs)) ELSE s

RECURSIVE RStrip(_, _)
RStrip(s, cs) ==
  IF Len(s) > 0 /\ s[Len(s)] \in cs
  THEN With(SubSeq(s, 1, Len(s) - 1), LAMBDA rest : RStrip(rest, cs))
  ELSE s

Strip(s, cs) == With(LStrip(s, cs), LAMBDA l : RStrip(l, cs))

\* str.replace(a, b, 1) for one-symbol a and b
ReplaceFirst(s, a, b) ==
  With(FirstIndex(s, a), LAMBDA i : IF i = 0 THEN s ELSE [s EXCEPT ![i] = b])

Count(seq, x) == Cardinality({i \in 1..Len(seq) : seq[i] = x})

RemoveAt(seq, i) == SubSeq(seq, 1, i - 1) \o SubSeq(seq, i + 1, Len(seq))

Max(a, b) == IF a >= b THEN a ELSE b

(***************************************************************************)
(* Rule comments.  An Optional[str] is <<>> (None) or <<text>>.            *)
(***************************************************************************)
comment_for(suid, created_ts, extra, preserve) ==
  Join(<<<<COMMENT_PREFIX>>, suid, Dec(created_ts)>>
         \o (IF extra # <<>> /\ extra[1] # <<>> THEN <<extra[1]>> ELSE <<>>)
         \o (IF preserve THEN <<<<NOT_DELETE>>>> ELSE <<>>),
       COLON)

parse_comment(comment) ==
  IF comment = <<>> \/ ~Contains(comment, <<COMMENT_PREFIX>>) THEN None
  ELSE
    With(Strip(comment, {SP}), LAMBDA raw1 :
    With(Strip(raw1, {"/", "*"}), LAMBDA raw2 :
    With(Strip(raw2, {"*", "/"}), LAMBDA raw3 :
    With(Strip(raw3, {SP}), LAMBDA raw :
      IF ~StartsWith(raw, <<COMMENT_PREFIX, COLON>>) THEN None
      ELSE With(Split(raw, COLON), LAMBDA parts :
        IF Len(parts) < 3 THEN None
        ELSE IF ~IsDigits(parts[3]) THEN None
        ELSE
          With(SubSeq(parts, 4, Len(parts)), LAMBDA remaining :
          With(Len(remaining) > 0 /\ remaining[Len(remaining)] = <<NOT_DELETE>>,
               LAMBDA preserve :
          With(IF preserve THEN SubSeq(remaining, 1, Len(remaining) - 1) ELSE remaining,
               LAMBDA rest :
            [ok |-> TRUE,
             suid |-> parts[2],
             created_ts |-> IntOf(parts[3]),
             extra |-> IF Len(rest) > 0 THEN <<Join(rest, COLON)>> ELSE <<>>,
             preserve |-> preserve]))))))))

(***************************************************************************)
(* The firewall, as the iptables tool keeps and prints it.  A table's      *)
(* chain is a sequence of rules, first rule first; a rule is its matches,  *)
(* its comment (<<>> when it has none) and its target.  The chains that    *)
(* exist are the domain of the firewall function.                          *)
(***************************************************************************)
FilterAnchors == <<<<"INPUT">>, <<"OUTPUT">>, <<"FORWARD">>>>
NatAnchors == <<<<"OUTPUT">>, <<"PREROUTING">>, <<"POSTROUTING">>>>

BuiltinKeys ==
  {<<"filter", FilterAnchors[i]>> : i \in 1..3} \cup {<<"nat", NatAnchors[i]>> : i \in 1..3}

EmptyFirewall == [k \in BuiltinKeys |-> <<>>]

Rule(matches, comment, target) ==
  [matches |-> matches, comment |-> comment, target |-> target]

\* one rule of `iptables -S`: matches first, the target last; a comment that
\* holds a colon is printed between double quotes
RenderRule(chain, r) ==
  <<"-A", SP>> \o chain
    \o (IF r.matches # <<>> THEN <<SP>> \o r.matches ELSE <<>>)
    \o (IF r.comment # <<>> THEN <<SP>> \o M_COMMENT \o <<SP, Q>> \o r.comment \o <<Q>>
        ELSE <<>>)
    \o <<SP, "-j", SP>> \o r.target

iptables_S(f, chain, table) ==
  LET k == <<table, chain>>
  IN IF k \notin DOMAIN f THEN <<>>
     ELSE <<(IF k \in BuiltinKeys THEN <<"-P", SP>> \o chain \o <<SP, "ACCEPT">>
             ELSE <<"-N", SP>> \o chain)>>
          \o [i \in 1..Len(f[k]) |-> RenderRule(chain, f[k][i])]

\* iptables -t table -N chain
IptNewChain(f, table, chain) ==
  IF <<table, chain>> \in DOMAIN f THEN f
  ELSE [k \in DOMAIN f \cup {<<table, chain>>} |->
          IF k \in DOMAIN f THEN f[k] ELSE <<>>]

\* iptables -t table -C chain <rule>: some rule of the chain is this very rule
IptCheck(f, table, chain, r) ==
  /\ <<table, chain>> \in DOMAIN f
  /\ \E i \in 1..Len(f[<<table, chain>>]) : f[<<table, chain>>][i] = r

\* iptables -t table -I chain [1] <rule>: the rule becomes the chain's first
IptInsert(f, table, chain, r) ==
  IF <<table, chain>> \in DOMAIN f
  THEN [ok |-> TRUE, fw |-> [f EXCEPT ![<<table, chain>>] = <<r>> \o @]]
  ELSE [ok |-> FALSE, fw |-> f]

\* iptables -t table <delete>, where delete is a printed rule with -D for -A:
\* the first rule of the named chain that prints so is deleted
IptDelete(f, table, delete) ==
  With(UNION {{<<k, i>> : i \in {j \in 1..Len(f[k]) :
                  ReplaceFirst(RenderRule(k[2], f[k][j]), "-A", "-D") = delete}} :
              k \in {x \in DOMAIN f : x[1] = table}},
       LAMBDA cands :
    IF cands = {} THEN [ok |-> FALSE, fw |-> f]
    ELSE With(CHOOSE x \in cands : \A y \in cands : x[2] <= y[2], LAMBDA ki :
           [ok |-> TRUE, fw |-> [f EXCEPT ![ki[1]] = RemoveAt(@, ki[2])]]))

(***************************************************************************)
(* The rule ledger.                                                        *)
(***************************************************************************)
AnchorRule(suid, created_ts, anchor_chain, dedicated, preserve) ==
  Rule(<<>>,
       comment_for(suid, created_ts, <<anchor_chain \o <<"->">> \o dedicated>>, preserve),
       dedicated)

ensure_chain_and_anchor(f, anchor_chain, table, suid, preserve, t) ==
  With(IptNewChain(f, table, STORMSHADOW_CHAIN), LAMBDA f1 :
    IF IptCheck(f1, table, anchor_chain, Rule(<<>>, <<>>, STORMSHADOW_CHAIN)) THEN f1
    ELSE IptInsert(f1, table, anchor_chain,
                   AnchorRule(suid, t, anchor_chain, STORMSHADOW_CHAIN, preserve)).fw)

ensure_nat_chain_and_anchor(f, anchor_chain, suid, preserve, t) ==
  With(IptNewChain(f, "nat", STORMSHADOW_NAT_CHAIN), LAMBDA f1 :
    IF IptCheck(f1, "nat", anchor_chain, Rule(<<>>, <<>>, STORMSHADOW_NAT_CHAIN)) THEN f1
    ELSE IptInsert(f1, "nat", anchor_chain,
                   AnchorRule(suid, t, anchor_chain, STORMSHADOW_NAT_CHAIN, preserve)).fw)

QueueRule(queue_num, dst_port, suid, created_ts, preserve) ==
  Rule(<<"-p udp -m udp --dport", SP>> \o Dec(dst_port),
       comment_for(suid, created_ts,
                   <<<<"udp_dport=">> \o Dec(dst_port) \o <<";queue=">> \o Dec(queue_num)>>,
                   preserve),
       <<"NFQUEUE", SP, "--queue-num", SP>> \o Dec(queue_num))

add_nfqueue_rule_tagged(f, queue_num, dst_port, suid, anchor_chain, preserve, t) ==
  With(ensure_chain_and_anchor(f, anchor_chain, "filter", suid, preserve, t), LAMBDA f1 :
    IptInsert(f1, "filter", STORMSHADOW_CHAIN,
              QueueRule(queue_num, dst_port, suid, t, preserve)))

RECEIVER == <<"1", "0", ".", "1", "0", ".", "1", "2", "3", ".", "1">>
SUBNET == <<"1", "0", ".", "1", "0", ".", "1", "2", "3", ".", "0", "/", "2", "5">>

DnatRule(receiver_port, suid, created_ts) ==
  Rule(<<"-d", SP>> \o SUBNET \o <<SP, "-p udp">>,
       comment_for(suid, created_ts,
                   <<<<"dnat_to=">> \o RECEIVER \o <<COLON>> \o Dec(receiver_port)>>, FALSE),
       <<"DNAT", SP, "--to-destination", SP>> \o RECEIVER \o <<COLON>> \o Dec(receiver_port))

activate_return_path(f, receiver_port, suid, t) ==
  With(ensure_nat_chain_and_anchor(f, <<"OUTPUT">>, suid, FALSE, t), LAMBDA f1 :
    IptInsert(f1, "nat", STORMSHADOW_NAT_CHAIN, DnatRule(receiver_port, suid, t)).fw)

IsTaggedLine(line) == Contains(line, M_COMMENT) /\ Contains(line, <<COMMENT_PREFIX>>)

DeleteForm(line) == ReplaceFirst(line, "-A", "-D")

\* the loop of remove_rules_for_suid over the lines it listed
RECURSIVE RemoveLines(_, _, _, _, _)
RemoveLines(acc, lines, i, suid, table) ==
  IF i > Len(lines) THEN acc
  ELSE IF IsTaggedLine(lines[i]) /\ Contains(lines[i], suid)
  THEN With(IptDelete(acc.fw, table, DeleteForm(lines[i])), LAMBDA d :
       With([fw |-> d.fw, removed |-> acc.removed + (IF d.ok THEN 1 ELSE 0)], LAMBDA nxt :
         RemoveLines(nxt, lines, i + 1, suid, table)))
  ELSE RemoveLines(acc, lines, i + 1, suid, table)

remove_rules_for_suid(f, suid, table, chain) ==
  With(iptables_S(f, chain, table), LAMBDA lines :
    RemoveLines([fw |-> f, removed |-> 0], lines, 1, suid, table))

\* the two anchor loops and the two dedicated-chain sweeps of remove_all_rules_for_suid
RECURSIVE RemoveAnchorLines(_, _, _, _, _, _)
RemoveAnchorLines(acc, lines, i, suid, table, dedicated) ==
  IF i > Len(lines) THEN acc
  ELSE IF /\ Contains(lines[i], <<"-j", SP>> \o dedicated)
          /\ IsTaggedLine(lines[i])
          /\ Contains(lines[i], suid)
  THEN With(IptDelete(acc.fw, table, DeleteForm(lines[i])), LAMBDA d :
       With([fw |-> d.fw, removed |-> acc.removed + (IF d.ok THEN 1 ELSE 0)], LAMBDA nxt :
         RemoveAnchorLines(nxt, lines, i + 1, suid, table, dedicated)))
  ELSE RemoveAnchorLines(acc, lines, i + 1, suid, table, dedicated)

RECURSIVE RemoveAnchorChains(_, _, _, _, _, _)
RemoveAnchorChains(acc, chains, c, suid, table, dedicated) ==
  IF c > Len(chains) THEN acc
  ELSE With(iptables_S(acc.fw, chains[c], table), LAMBDA lines :
       With(RemoveAnchorLines(acc, lines, 1, suid, table, dedicated), LAMBDA nxt :
         RemoveAnchorChains(nxt, chains, c + 1, suid, table, dedicated)))

remove_all_rules_for_suid(f, suid) ==
  With(RemoveAnchorChains([fw |-> f, removed |-> 0], FilterAnchors, 1, suid,
                          "filter", STORMSHADOW_CHAIN), LAMBDA a1 :
  With(RemoveAnchorChains(a1, NatAnchors, 1, suid, "nat", STORMSHADOW_NAT_CHAIN), LAMBDA a2 :
  With(remove_rules_for_suid(a2.fw, suid, "filter", STORMSHADOW_CHAIN), LAMBDA r3 :
  With(remove_rules_for_suid(r3.fw, suid, "nat", STORMSHADOW_NAT_CHAIN), LAMBDA r4 :
    [fw |-> r4.fw, removed |-> a2.removed + r3.removed + r4.removed]))))

(***************************************************************************)
(* Heartbeat files: the domain of the heartbeat function is the set of     *)
(* sessions that have a file, its value the file's modification time.      *)
(***************************************************************************)
heartbeat_touch(h, suid, t) ==
  [s \in DOMAIN h \cup {suid} |-> IF s = suid THEN t ELSE h[s]]

heartbeat_remove(h, suid) == [s \in DOMAIN h \ {suid} |-> h[s]]

cleanup_stale_heartbeats(h, ttl_seconds, t) ==
  [s \in {x \in DOMAIN h : ~(t - h[x] >= ttl_seconds)} |-> h[s]]

(***************************************************************************)
(* The garbage collector.                                                  *)
(***************************************************************************)
half_ttl(ttl_seconds) == Max(HALF_TTL_FLOOR, ttl_seconds \div 2)

hb_fresh(h, suid, ttl_seconds, t) ==
  suid \in DOMAIN h /\ (t - h[suid]) < half_ttl(ttl_seconds)

\* should_remove without its NOT_DELETE test
should_remove_without_preserve(h, ttl_seconds, t, comment_text) ==
  With(parse_comment(comment_text), LAMBDA parsed :
    IF ~parsed.ok THEN <<>>
    ELSE IF ~hb_fresh(h, parsed.suid, ttl_seconds, t) \/ (t - parsed.created_ts) >= ttl_seconds
    THEN <<parsed.suid>>
    ELSE <<>>)

\* the owner to sweep, as an Optional[str]
should_remove(h, ttl_seconds, t, comment_text) ==
  With(parse_comment(comment_text), LAMBDA parsed :
    IF ~parsed.ok THEN <<>>
    ELSE IF parsed.preserve THEN <<>>
    ELSE IF ~hb_fresh(h, parsed.suid, ttl_seconds, t) \/ (t - parsed.created_ts) >= ttl_seconds
    THEN <<parsed.suid>>
    ELSE <<>>)

\* re.search(r'--comment\s+"([^"]+)"', line): the group of the leftmost match
CommentMatchAt(line, i) ==
  With(IF \E x \in (i + 1)..Len(line) : line[x] # SP
       THEN CHOOSE x \in (i + 1)..Len(line) :
              line[x] # SP /\ \A y \in (i + 1)..(x - 1) : line[y] = SP
       ELSE 0, LAMBDA k :
  With(IF k > 0 /\ \E x \in (k + 1)..Len(line) : line[x] = Q
       THEN CHOOSE x \in (k + 1)..Len(line) :
              line[x] = Q /\ \A y \in (k + 1)..(x - 1) : line[y] # Q
       ELSE 0, LAMBDA m :
    IF line[i] = "--comment" /\ k > i + 1 /\ line[k] = Q /\ m > k + 1
    THEN <<SubSeq(line, k + 1, m - 1)>>
    ELSE <<>>))

comment_match(line) ==
  With({i \in 1..Len(line) : line[i] = "--comment" /\ CommentMatchAt(line, i) # <<>>},
       LAMBDA hits :
    IF hits = {} THEN <<>>
    ELSE CommentMatchAt(line, CHOOSE i \in hits : \A j \in hits : i <= j))

\* line.split("--comment", 1)[1].strip().split(" ", 1)[1].strip().strip("'\""),
\* the whole line when an index is out of range
comment_text_of(line) ==
  With(FirstIndex(line, "--comment"), LAMBDA i :
  With(Strip(SubSeq(line, i + 1, Len(line)), {SP}), LAMBDA after :
  With(FirstIndex(after, SP), LAMBDA j :
    IF i = 0 \/ j = 0 THEN line
    ELSE With(Strip(SubSeq(after, j + 1, Len(after)), {SP}), LAMBDA text :
           Strip(text, {"'", Q})))))

Truthy(opt) == opt # <<>> /\ opt[1] # <<>>

\* the anchor loop of cleanup_stale_rules over one chain's listed lines
RECURSIVE SweepAnchorLines(_, _, _, _, _, _)
SweepAnchorLines(acc, lines, i, h, ttl_seconds, t) ==
  IF i > Len(lines) THEN acc
  ELSE IF ~(Contains(lines[i], <<"-j", SP>> \o STORMSHADOW_CHAIN) /\ IsTaggedLine(lines[i]))
  THEN SweepAnchorLines(acc, lines, i + 1, h, ttl_seconds, t)
  ELSE
    With(comment_match(lines[i]), LAMBDA m :
    With(IF m = <<>> THEN <<>> ELSE should_remove(h, ttl_seconds, t, m[1]), LAMBDA suid :
      IF ~Truthy(suid) THEN SweepAnchorLines(acc, lines, i + 1, h, ttl_seconds, t)
      ELSE
        With(IptDelete(acc.fw, "filter", DeleteForm(lines[i])), LAMBDA d :
        With([fw |-> d.fw, removed |-> acc.removed + (IF d.ok THEN 1 ELSE 0)], LAMBDA nxt :
          SweepAnchorLines(nxt, lines, i + 1, h, ttl_seconds, t)))))

RECURSIVE SweepAnchorChains(_, _, _, _, _)
SweepAnchorChains(acc, c, h, ttl_seconds, t) ==
  IF c > Len(FilterAnchors) THEN acc
  ELSE With(iptables_S(acc.fw, FilterAnchors[c], "filter"), LAMBDA lines :
       With(SweepAnchorLines(acc, lines, 1, h, ttl_seconds, t), LAMBDA nxt :
         SweepAnchorChains(nxt, c + 1, h, ttl_seconds, t)))

\* the sweep of one dedicated chain: every listed line names a candidate owner,
\* whose rules remove_rules_for_suid then deletes from the chain
RECURSIVE SweepChainLines(_, _, _, _, _, _, _, _)
SweepChainLines(acc, lines, i, h, ttl_seconds, t, table, chain) ==
  IF i > Len(lines) THEN acc
  ELSE IF ~IsTaggedLine(lines[i])
  THEN SweepChainLines(acc, lines, i + 1, h, ttl_seconds, t, table, chain)
  ELSE
    With(comment_text_of(lines[i]), LAMBDA comment_text :
    With(should_remove(h, ttl_seconds, t, comment_text), LAMBDA suid :
      IF ~Truthy(suid) THEN SweepChainLines(acc, lines, i + 1, h, ttl_seconds, t, table, chain)
      ELSE
        With(remove_rules_for_suid(acc.fw, suid[1], table, chain), LAMBDA r :
        With([fw |-> r.fw, removed |-> acc.removed + r.removed], LAMBDA nxt :
          SweepChainLines(nxt, lines, i + 1, h, ttl_seconds, t, table, chain)))))

cleanup_stale_rules(f, h, ttl_seconds, t) ==
  With(cleanup_stale_heartbeats(h, ttl_seconds, t), LAMBDA h1 :
  With(SweepAnchorChains([fw |-> f, removed |-> 0], 1, h1, ttl_seconds, t), LAMBDA a :
  With(iptables_S(a.fw, STORMSHADOW_CHAIN, "filter"), LAMBDA lines1 :
  With(SweepChainLines(a, lines1, 1, h1, ttl_seconds, t, "filter", STORMSHADOW_CHAIN),
       LAMBDA b :
  With(iptables_S(b.fw, STORMSHADOW_NAT_CHAIN, "nat"), LAMBDA lines2 :
  With(SweepChainLines(b, lines2, 1, h1, ttl_seconds, t, "nat", STORMSHADOW_NAT_CHAIN),
       LAMBDA c :
    [fw |-> c.fw, hb |-> h1, removed |-> c.removed]))))))

(***************************************************************************)
(* State.                                                                  *)
(*   fw    the firewall: (table, chain) -> rules                           *)
(*   hb    the heartbeat directory: session id -> modification time        *)
(*   now   the clock, in seconds                                           *)
(*   last  the ledger operation that produced this state, with its         *)
(*         arguments and the count it returned                             *)
(*   inserted  the number of rules inserted so far                         *)
(*   flags     the configuration of the attack session and the flags its   *)
(*             generator declares                                          *)
(*   status    AttackSession.status, "none" while no session is loaded     *)
(*   attack_dry_run  main_attack.dry_run                                   *)
(*   spoofer   the generator's SipPacketSpoofer: "none", "live" or "dry"   *)
(*   manager   StormShadow.attack_manager is set                           *)
(*   hb_thread the heartbeat thread of StormShadow runs                    *)
(*   op        the handler in progress, "idle" between calls               *)
(*   caller    who called the handler in progress                          *)
(*   todo      the calls the handler in progress has still to make         *)
(*   calls     the calls the handler has made; a call that raised is       *)
(*             marked with "!"                                             *)
(*   entry     the handler of the session entered last, and the status the *)
(*             session had when it was entered                             *)
(***************************************************************************)
VARIABLES fw, hb, now, last, inserted,
          flags, status, attack_dry_run, spoofer, manager, hb_thread,
          op, caller, todo, calls, entry,
          packet, anchor, tag, coord, worker,
          controller, storms, attacks

ledgerVars == <<fw, hb, now, last, inserted>>

sessionVars == <<flags, status, attack_dry_run, spoofer, manager, hb_thread,
                 op, caller, todo, calls, entry>>

\* the state of the spoofing worker's packet callback, of the processes that are
\* inside ensure_chain_and_anchor, the last tag encoded or decoded, and the
\* state of the spoofing coordinator, and the main line of the spoofing worker
\* with the readiness socket of its coordinator
controlVars == <<controller, storms, attacks>>

componentVars == <<packet, anchor, tag, coord, worker, controlVars>>

vars == <<fw, hb, now, last, inserted,
          flags, status, attack_dry_run, spoofer, manager, hb_thread,
          op, caller, todo, calls, entry,
          packet, anchor, tag, coord, worker,
          controller, storms, attacks>>

\* a worker that has no addresses to spoof and has handled no packet
NoPacket == [ips |-> 0, next_ip_number |-> 0, handled |-> <<>>]

\* the processes that may call ensure_chain_and_anchor at the same time
Procs == {"a", "b"}

\* no process is inside ensure_chain_and_anchor
NoAnchor == [p \in Procs |-> [pc |-> "idle", suid |-> <<>>, chain |-> <<>>]]

\* no comment has been encoded or decoded
NoTag ==
  [op |-> "none", suid |-> <<>>, created_ts |-> 0, extra |-> <<>>, preserve |-> FALSE,
   comment |-> <<>>, parsed |-> None]

\* a coordinator that has started nothing
\* a coordinator that has started nothing: no worker handle (0), no worker
\* process alive, nothing called yet
NoCoordinator ==
  [dry_run |-> FALSE, netfilter_spoofing_queue |-> "none", spoofer_process |-> 0,
   workers |-> {}, launched |-> 0, starts |-> 0,
   op |-> "none", events |-> <<>>, returned |-> "none"]

\* no worker process has been launched
NoWorker ==
  [todo |-> <<>>, alive |-> FALSE, exit_code |-> 0, socket |-> "absent",
   heard |-> FALSE, events |-> <<>>]

\* the command-line controller has not been started
NoController ==
  [todo |-> <<>>, handlers |-> {}, in_handler |-> 0, alive |-> FALSE,
   exit_code |-> 0, stop_raised |-> FALSE, events |-> <<>>]

\* the StormShadow instances of one process: none is constructed
Instances == {1, 2}

NoStorm ==
  [created |-> FALSE, is_running |-> FALSE, hb_stop |-> FALSE, hb_thread |-> "none",
   todo |-> <<>>, stopped |-> FALSE]

NoStorms == [i \in Instances |-> NoStorm]

\* an attack manager that has loaded no attack: current_attack is None (0)
NoAttacks == [sessions |-> <<>>, current_attack |-> 0, calls |-> <<>>]

NoControl == controller = NoController /\ storms = NoStorms /\ attacks = NoAttacks

\* no other component is active
NoComponents ==
  /\ packet = NoPacket /\ anchor = NoAnchor /\ tag = NoTag /\ coord = NoCoordinator
  /\ worker = NoWorker
  /\ NoControl

\* no handler of a session has been entered
NoEntry == [handler |-> "none", status |-> "none"]

\* no attack session is loaded and no handler runs
NoSession ==
  /\ flags = [enable_spoofing |-> FALSE, dry_run |-> FALSE,
              dry_run_implemented |-> FALSE, resume_implemented |-> FALSE]
  /\ status = "none"
  /\ attack_dry_run = FALSE
  /\ spoofer = "none"
  /\ manager = FALSE
  /\ hb_thread = FALSE
  /\ op = "idle"
  /\ caller = "direct"
  /\ todo = <<>>
  /\ calls = <<>>
  /\ entry = NoEntry

EmptyHb == [s \in {} |-> 0]

RuleSlots(f) == UNION {{<<k, i>> : i \in 1..Len(f[k])} : k \in DOMAIN f}

TotalRules(f) == Cardinality(RuleSlots(f))

Op(name, suid, ttl, table, chain, removed) ==
  [op |-> name, suid |-> suid, ttl |-> ttl, table |-> table, chain |-> chain,
   removed |-> removed]

NoOp == Op("none", <<>>, 0, "", <<>>, 0)

LedgerEmpty ==
  /\ fw = EmptyFirewall
  /\ hb = EmptyHb
  /\ now = 0
  /\ last = NoOp
  /\ inserted = 0

LedgerInit == LedgerEmpty /\ NoSession /\ NoComponents

Tick ==
  /\ now < MaxTicks * TimeStep
  /\ now' = now + TimeStep
  /\ last' = NoOp
  /\ UNCHANGED <<fw, hb, inserted, sessionVars>>
  /\ UNCHANGED componentVars

HeartbeatTouch(s) ==
  /\ hb' = heartbeat_touch(hb, s, now)
  /\ last' = NoOp
  /\ UNCHANGED <<fw, now, inserted, sessionVars>>
  /\ UNCHANGED componentVars

HeartbeatRemove(s) ==
  /\ s \in DOMAIN hb
  /\ hb' = heartbeat_remove(hb, s)
  /\ last' = NoOp
  /\ UNCHANGED <<fw, now, inserted, sessionVars>>
  /\ UNCHANGED componentVars

AddNfqueueRuleTagged(s, preserve) ==
  /\ inserted + 2 <= MaxRules
  /\ fw' = add_nfqueue_rule_tagged(fw, QUEUE_NUM, DST_PORT, s, <<"OUTPUT">>, preserve, now).fw
  /\ inserted' = inserted + TotalRules(fw') - TotalRules(fw)
  /\ last' = NoOp
  /\ UNCHANGED <<hb, now, sessionVars>>
  /\ UNCHANGED componentVars

ActivateReturnPath(s) ==
  /\ inserted + 2 <= MaxRules
  /\ fw' = activate_return_path(fw, DST_PORT, s, now)
  /\ inserted' = inserted + TotalRules(fw') - TotalRules(fw)
  /\ last' = NoOp
  /\ UNCHANGED <<hb, now, sessionVars>>
  /\ UNCHANGED componentVars

RemoveRulesForSuid(s, table, chain) ==
  /\ TotalRules(fw) > 0
  /\ \E r \in {remove_rules_for_suid(fw, s, table, chain)} :
        /\ fw' = r.fw
        /\ last' = Op("remove_rules_for_suid", s, 0, table, chain, r.removed)
  /\ UNCHANGED <<hb, now, inserted, sessionVars>>
  /\ UNCHANGED componentVars

RemoveAllRulesForSuid(s) ==
  /\ TotalRules(fw) > 0
  /\ \E r \in {remove_all_rules_for_suid(fw, s)} :
        /\ fw' = r.fw
        /\ last' = Op("remove_all_rules_for_suid", s, 0, "", <<>>, r.removed)
  /\ UNCHANGED <<hb, now, inserted, sessionVars>>
  /\ UNCHANGED componentVars

CleanupStaleRules(ttl) ==
  /\ \E r \in {cleanup_stale_rules(fw, hb, ttl, now)} :
        /\ fw' = r.fw
        /\ hb' = r.hb
        /\ last' = Op("cleanup_stale_rules", <<>>, ttl, "", <<>>, r.removed)
  /\ UNCHANGED <<now, inserted, sessionVars>>
  /\ UNCHANGED componentVars

\* the ledger's removal operations on any firewall the install operations build
RemoveNext ==
  \/ Tick
  \/ \E s \in Suids, preserve \in BOOLEAN : AddNfqueueRuleTagged(s, preserve)
  \/ \E s \in Suids : ActivateReturnPath(s)
  \/ \E s \in Suids :
       \/ RemoveRulesForSuid(s, "filter", STORMSHADOW_CHAIN)
       \/ RemoveRulesForSuid(s, "nat", STORMSHADOW_NAT_CHAIN)
       \/ RemoveRulesForSuid(s, "nat", STORMSHADOW_CHAIN)
  \/ \E s \in Suids : RemoveAllRulesForSuid(s)

RemoveSpec == LedgerInit /\ [][RemoveNext]_vars

\* the garbage collector on any firewall and heartbeat directory
GcNext ==
  \/ Tick
  \/ \E s \in Suids : HeartbeatTouch(s)
  \/ \E s \in Suids : HeartbeatRemove(s)
  \/ \E s \in Suids, preserve \in BOOLEAN : AddNfqueueRuleTagged(s, preserve)
  \/ \E s \in Suids : ActivateReturnPath(s)
  \/ \E ttl \in TTLs : CleanupStaleRules(ttl)

GcSpec == LedgerInit /\ [][GcNext]_vars

(***************************************************************************)
(* The attack session, its manager and the orchestrator.  The generator is *)
(* a plug-in: its run, stop and resume return or raise; it delegates       *)
(* spoofing to SipPacketSpoofer as the invite-flood module does.           *)
(***************************************************************************)
INITIALIZED == "initialized"
RUNNING == "running"
STOPPED == "stopped"
FAILED == "failed"

\* the session id of this process, and the id of another process's session
OwnSuid == <<"1">>
PeerSuid == <<"1", "7">>

Flags ==
  [enable_spoofing : BOOLEAN, dry_run : BOOLEAN,
   dry_run_implemented : BOOLEAN, resume_implemented : BOOLEAN]

\* a start that runs the generator first and starts spoofing afterwards
start_calls_run_first(dry_run, dry_run_implemented, enable_spoofing) ==
  IF dry_run /\ ~dry_run_implemented THEN <<>>
  ELSE <<"run">> \o (IF enable_spoofing THEN <<"start_spoofing">> ELSE <<>>)

\* the calls AttackSession.start makes, in order
start_calls(dry_run, dry_run_implemented, enable_spoofing) ==
  IF dry_run /\ ~dry_run_implemented THEN <<>>
  ELSE (IF enable_spoofing THEN <<"start_spoofing">> ELSE <<>>) \o <<"run">>

\* a stop that stops the generator first and spoofing afterwards
stop_calls_generator_first(dry_run, dry_run_implemented, enable_spoofing) ==
  IF dry_run /\ ~dry_run_implemented THEN <<>>
  ELSE <<"stop">> \o (IF enable_spoofing THEN <<"stop_spoofing">> ELSE <<>>)
         \o <<"remove_rules">>

\* the calls AttackSession.stop makes, in order
stop_calls(dry_run, dry_run_implemented, enable_spoofing) ==
  IF dry_run /\ ~dry_run_implemented THEN <<>>
  ELSE (IF enable_spoofing THEN <<"stop_spoofing">> ELSE <<>>) \o <<"stop", "remove_rules">>

\* SipPacketSpoofer.start_spoofing on a host without the ipset tool
spoofer_start(f, h, suid, dry, t) ==
  [hb |-> heartbeat_touch(h, suid, t),
   fw |-> IF dry THEN f
          ELSE add_nfqueue_rule_tagged(f, QUEUE_NUM, DST_PORT, suid, <<"OUTPUT">>, FALSE, t).fw]

\* the untagged rule that stop_spoofing tries to delete when no tagged rule was removed
FallbackRule ==
  Rule(<<"-d", SP, "victim_ip/32", SP, "-p udp -m udp --dport", SP>> \o Dec(DST_PORT),
       <<>>,
       <<"NFQUEUE", SP, "--queue-num", SP>> \o Dec(QUEUE_NUM))

\* the rule removal of SipPacketSpoofer.stop_spoofing and its variable `removed`
remove_binding_rules(f, suid) ==
  With(remove_rules_for_suid(f, suid, "filter", STORMSHADOW_CHAIN), LAMBDA r :
    IF r.removed > 0 THEN [fw |-> r.fw, removed |-> TRUE]
    ELSE
      With(IptDelete(r.fw, "filter", DeleteForm(RenderRule(STORMSHADOW_CHAIN, FallbackRule))),
           LAMBDA d :
        IF d.ok THEN [fw |-> d.fw, removed |-> TRUE]
        ELSE With(IptDelete(d.fw, "filter",
                            DeleteForm(RenderRule(<<"OUTPUT">>, FallbackRule))),
                  LAMBDA l : [fw |-> l.fw, removed |-> l.ok])))

\* SipPacketSpoofer.stop_spoofing
spoofer_stop(f, suid, dry) ==
  IF dry THEN f ELSE remove_binding_rules(f, suid).fw

\* the generator's stop_spoofing, and its cleanup: both stop the spoofer it has
generator_stop_spoofing(f, sp, suid) ==
  IF sp = "none" THEN f ELSE spoofer_stop(f, suid, sp = "dry")

\* the best-effort removal that ends AttackSession.stop
session_remove_rules(f, suid, dry_run) ==
  IF dry_run THEN f
  ELSE With(remove_rules_for_suid(f, suid, "filter", STORMSHADOW_CHAIN), LAMBDA r :
         remove_rules_for_suid(r.fw, suid, "nat", STORMSHADOW_CHAIN).fw)

SessionInit ==
  /\ LedgerEmpty
  /\ NoComponents
  /\ flags \in Flags
  /\ status = "none"
  /\ attack_dry_run = FALSE
  /\ spoofer = "none"
  /\ manager = TRUE
  /\ hb_thread = TRUE
  /\ op = "idle"
  /\ caller = "direct"
  /\ todo = <<>>
  /\ calls = <<>>
  /\ entry = NoEntry

\* where control goes when the session's handler is over
AfterHandler(who) == IF who = "shutdown" THEN "shutdown_hb" ELSE "idle"

\* a handler called by who starts, with the calls it is going to make
Begin(handler, plan, who) ==
  /\ op' = IF plan = <<>> THEN AfterHandler(who) ELSE handler
  /\ todo' = plan
  /\ calls' = <<>>
  /\ caller' = who
  /\ entry' = [handler |-> handler,
                status |-> IF who = "manager" THEN INITIALIZED ELSE status]

\* the handler made call c and goes on
Proceed(c) ==
  /\ calls' = Append(calls, c)
  /\ todo' = Tail(todo)
  /\ op' = IF Tail(todo) = <<>> THEN AfterHandler(caller) ELSE op
  /\ UNCHANGED <<caller, entry>>

\* the handler made call c and returns at once
Return(c) ==
  /\ calls' = Append(calls, c)
  /\ todo' = <<>>
  /\ op' = AfterHandler(caller)
  /\ UNCHANGED <<caller, entry>>

\* AttackSession.start up to its first call
BeginStart(who, generator_dry_run) ==
  /\ status' = RUNNING
  /\ attack_dry_run' = (generator_dry_run \/ (flags.dry_run /\ flags.dry_run_implemented))
  /\ Begin("start",
           start_calls(flags.dry_run, flags.dry_run_implemented, flags.enable_spoofing), who)

\* a resume that does not look at the generator's resume_implemented
BeginResume_ignoring_resume_implemented(who, generator_dry_run) ==
  /\ attack_dry_run' = generator_dry_run
  /\ IF generator_dry_run /\ ~flags.dry_run_implemented
     THEN UNCHANGED status /\ Begin("resume", <<>>, who)
     ELSE status' = RUNNING /\ Begin("resume", <<"resume">>, who)

\* AttackSession.resume up to its call of the generator
BeginResume(who, generator_dry_run) ==
  /\ attack_dry_run' = generator_dry_run
  /\ IF generator_dry_run /\ ~flags.dry_run_implemented
     THEN UNCHANGED status /\ Begin("resume", <<>>, who)
     ELSE IF flags.resume_implemented
     THEN status' = RUNNING /\ Begin("resume", <<"resume">>, who)
     ELSE UNCHANGED status /\ Begin("resume", <<>>, who)

\* AttackManager.start, as StormShadow.run calls it: it builds a new session,
\* whose status is INITIALIZED, and starts or resumes it
ManagerStart ==
  /\ op = "idle"
  /\ manager
  /\ inserted + 2 <= MaxRules
  /\ spoofer' = "none"
  /\ IF INITIALIZED = STOPPED /\ flags.resume_implemented
     THEN BeginResume("manager", FALSE)
     ELSE BeginStart("manager", FALSE)
  /\ UNCHANGED <<ledgerVars, flags, manager, hb_thread>>
  /\ UNCHANGED componentVars

SessionStart ==
  /\ op = "idle"
  /\ status # "none"
  /\ inserted + 2 <= MaxRules
  /\ BeginStart("direct", attack_dry_run)
  /\ UNCHANGED <<ledgerVars, flags, spoofer, manager, hb_thread>>
  /\ UNCHANGED componentVars

\* an exception leaves AttackSession.start; StormShadow.run drops the manager
\* whose start raised
Raise(c) ==
  /\ Return(c)
  /\ manager' = IF caller = "manager" THEN FALSE ELSE manager

GeneratorStartSpoofing ==
  /\ todo # <<>> /\ Head(todo) = "start_spoofing"
  /\ \/ /\ spoofer' = IF spoofer # "none" THEN spoofer
                      ELSE IF attack_dry_run THEN "dry" ELSE "live"
        /\ \E r \in {spoofer_start(fw, hb, OwnSuid, spoofer' = "dry", now)} :
             /\ fw' = r.fw
             /\ hb' = r.hb
        /\ inserted' = inserted + TotalRules(fw') - TotalRules(fw)
        /\ Proceed("start_spoofing")
        /\ UNCHANGED <<now, last, flags, status, attack_dry_run, manager, hb_thread>>
     \/ /\ Raise("start_spoofing!")
        /\ UNCHANGED <<ledgerVars, flags, status, attack_dry_run, spoofer, hb_thread>>
  /\ UNCHANGED componentVars

GeneratorRun ==
  /\ todo # <<>> /\ Head(todo) = "run"
  /\ \/ /\ Proceed("run")
        /\ UNCHANGED <<ledgerVars, flags, status, attack_dry_run, spoofer, manager, hb_thread>>
     \/ /\ fw' = generator_stop_spoofing(fw, spoofer, OwnSuid)
        /\ Proceed("run")
        /\ UNCHANGED <<hb, now, last, inserted,
                       flags, status, attack_dry_run, spoofer, manager, hb_thread>>
     \/ /\ Raise("run!")
        /\ UNCHANGED <<ledgerVars, flags, status, attack_dry_run, spoofer, hb_thread>>
  /\ UNCHANGED componentVars

SessionStop ==
  /\ op = "idle"
  /\ status # "none"
  /\ Begin("stop",
           stop_calls(flags.dry_run, flags.dry_run_implemented, flags.enable_spoofing),
           "direct")
  /\ UNCHANGED <<ledgerVars, flags, status, attack_dry_run, spoofer, manager, hb_thread>>
  /\ UNCHANGED componentVars

GeneratorStopSpoofing ==
  /\ todo # <<>> /\ Head(todo) = "stop_spoofing"
  /\ \/ /\ fw' = generator_stop_spoofing(fw, spoofer, OwnSuid)
        /\ Proceed("stop_spoofing")
     \/ /\ UNCHANGED fw
        /\ Proceed("stop_spoofing!")
  /\ UNCHANGED <<hb, now, last, inserted,
                 flags, status, attack_dry_run, spoofer, manager, hb_thread>>
  /\ UNCHANGED componentVars

GeneratorStop ==
  /\ todo # <<>> /\ Head(todo) = "stop"
  /\ \/ /\ fw' = generator_stop_spoofing(fw, spoofer, OwnSuid)
        /\ status' = STOPPED
        /\ Proceed("stop")
     \/ /\ UNCHANGED <<fw, status>>
        /\ Return("stop!")
  /\ UNCHANGED <<hb, now, last, inserted, flags, attack_dry_run, spoofer, manager, hb_thread>>
  /\ UNCHANGED componentVars

SessionRemoveRules ==
  /\ todo # <<>> /\ Head(todo) = "remove_rules"
  /\ fw' = session_remove_rules(fw, OwnSuid, flags.dry_run)
  /\ Proceed("remove_rules")
  /\ UNCHANGED <<hb, now, last, inserted,
                 flags, status, attack_dry_run, spoofer, manager, hb_thread>>
  /\ UNCHANGED componentVars

SessionResume ==
  /\ op = "idle"
  /\ status # "none"
  /\ BeginResume("direct", attack_dry_run)
  /\ UNCHANGED <<ledgerVars, flags, spoofer, manager, hb_thread>>
  /\ UNCHANGED componentVars

GeneratorResume ==
  /\ todo # <<>> /\ Head(todo) = "resume"
  /\ \/ /\ Proceed("resume")
        /\ UNCHANGED <<fw, status>>
     \/ /\ status' = FAILED
        /\ fw' = generator_stop_spoofing(fw, spoofer, OwnSuid)
        /\ calls' = calls \o <<"resume!", "cleanup">>
        /\ todo' = <<>>
        /\ op' = AfterHandler(caller)
        /\ UNCHANGED <<caller, entry>>
  /\ UNCHANGED <<hb, now, last, inserted, flags, attack_dry_run, spoofer, manager, hb_thread>>
  /\ UNCHANGED componentVars

\* the loop of StormShadow's heartbeat thread
HeartbeatThread ==
  /\ hb_thread
  /\ hb' = heartbeat_touch(hb, OwnSuid, now)
  /\ UNCHANGED <<fw, now, last, inserted, sessionVars>>
  /\ UNCHANGED componentVars

\* StormShadow.stop up to the first call of the session's stop
StormShadowStop ==
  /\ op = "idle"
  /\ Begin("stop",
           IF manager /\ status # "none"
           THEN stop_calls(flags.dry_run, flags.dry_run_implemented, flags.enable_spoofing)
           ELSE <<>>,
           "shutdown")
  /\ UNCHANGED <<ledgerVars, flags, status, attack_dry_run, spoofer, manager, hb_thread>>
  /\ UNCHANGED componentVars

\* StormShadow.stop: _stop_heartbeat() and heartbeat_remove()
ShutdownHeartbeat ==
  /\ op = "shutdown_hb"
  /\ hb_thread' = FALSE
  /\ hb' = heartbeat_remove(hb, OwnSuid)
  /\ op' = "shutdown_rules"
  /\ UNCHANGED <<fw, now, last, inserted,
                 flags, status, attack_dry_run, spoofer, manager, caller, todo, calls, entry>>
  /\ UNCHANGED componentVars

\* StormShadow.stop: remove_all_rules_for_suid()
ShutdownRules ==
  /\ op = "shutdown_rules"
  /\ fw' = remove_all_rules_for_suid(fw, OwnSuid).fw
  /\ op' = "down"
  /\ UNCHANGED <<hb, now, last, inserted,
                 flags, status, attack_dry_run, spoofer, manager, hb_thread,
                 caller, todo, calls, entry>>
  /\ UNCHANGED componentVars

SessionNext ==
  \/ Tick
  \/ HeartbeatThread
  \/ AddNfqueueRuleTagged(PeerSuid, FALSE)
  \/ ManagerStart
  \/ SessionStart
  \/ GeneratorStartSpoofing
  \/ GeneratorRun
  \/ SessionStop
  \/ GeneratorStopSpoofing
  \/ GeneratorStop
  \/ SessionRemoveRules
  \/ SessionResume
  \/ GeneratorResume
  \/ StormShadowStop
  \/ ShutdownHeartbeat
  \/ ShutdownRules

SessionSpec == SessionInit /\ [][SessionNext]_vars

(***************************************************************************)
(* The spoofing worker: the callback the packet queue runs on each packet. *)
(* A packet object issues a verdict once; a second verdict raises.         *)
(***************************************************************************)
MaxPackets == 4

\* EPHEMERAL_PORTS = range(49152, 65536): the first port, and the stop value
\* that the range leaves out
EPHEMERAL_FIRST == 49152
EPHEMERAL_STOP == 65536

EPHEMERAL_PORTS == EPHEMERAL_FIRST..(EPHEMERAL_STOP - 1)

\* the indices random.choice is followed on: the first and the last of the range
RandomChoices == {0, EPHEMERAL_STOP - EPHEMERAL_FIRST - 1}

\* a draw from the ports below the ephemeral range
random_ephemeral_port_registered(choice) ==
  EPHEMERAL_FIRST - 1 - choice

\* random_ephemeral_port: random.choice(EPHEMERAL_PORTS), choice being the index drawn
random_ephemeral_port(choice) ==
  EPHEMERAL_FIRST + choice

\* what the queue hands over: a UDP datagram, an IP packet without UDP layer,
\* and bytes that do not parse as IP
Payloads == {"udp", "tcp", "garbage"}

\* the packet the traffic generator sent, as IP(packet.get_payload()) decodes
\* it; its checksums are the ones stored in the headers
Datagram ==
  [ok |-> TRUE, src |-> 0, sport |-> DST_PORT, dst |-> "victim", dport |-> DST_PORT,
   ip_chksum |-> "stored", udp_chksum |-> "stored", data |-> "INVITE"]

\* bytes(pkt): a checksum that was deleted is computed over the packet as it
\* is now, a stored one is written as it is
Serialise(pkt) ==
  [pkt EXCEPT !.ip_chksum = IF @ = "deleted" THEN "recomputed" ELSE @,
              !.udp_chksum = IF @ = "deleted" THEN "recomputed" ELSE @]

\* the number of host addresses of the spoofed subnet: list(subnet.hosts()) is
\* whatever the ipaddress module enumerates, the constructor does not look at
\* its length
SpoofedIpCounts == 0..2

\* spoofed_ips[i]: the hosts of the subnet in order, the first one being 1
Host(i) == i + 1

\* Packet.accept and Packet.drop: the verdict v on a packet whose verdicts are vs
Verdict(vs, v) ==
  IF vs = <<>> THEN [raised |-> FALSE, verdicts |-> <<v>>]
  ELSE [raised |-> TRUE, verdicts |-> vs]

\* a cursor that is advanced without wrapping
get_spoofed_ip_without_wrap(ips, next_ip_number) ==
  IF next_ip_number >= ips
  THEN [raised |-> TRUE, ip |-> 0, next_ip_number |-> next_ip_number]
  ELSE [raised |-> FALSE, ip |-> Host(next_ip_number),
        next_ip_number |-> next_ip_number + 1]

\* Spoofer.get_spoofed_ip: the address at the cursor, or IndexError (and
\* ZeroDivisionError never, the index fails first) on an empty list
get_spoofed_ip(ips, next_ip_number) ==
  IF next_ip_number >= ips
  THEN [raised |-> TRUE, ip |-> 0, next_ip_number |-> next_ip_number]
  ELSE [raised |-> FALSE, ip |-> Host(next_ip_number),
        next_ip_number |-> (next_ip_number + 1) % ips]

\* lines 66-71 of packet_spoofer: source address, source port, the two
\* checksums deleted, and the bytes handed to set_payload
rewrite(pkt, ip, port) ==
  Serialise([pkt EXCEPT !.src = ip, !.sport = port,
                        !.ip_chksum = "deleted", !.udp_chksum = "deleted"])

\* the try block of packet_spoofer: parse, rewrite source and port, accept
spoof_and_accept(ips, next_ip_number, payload, choice) ==
  IF payload = "garbage"
  THEN [raised |-> TRUE, verdicts |-> <<>>, next_ip_number |-> next_ip_number,
        called |-> FALSE, ip |-> 0, sent |-> None]
  ELSE
    With(get_spoofed_ip(ips, next_ip_number), LAMBDA g :
      IF g.raised \/ payload # "udp"
      THEN [raised |-> TRUE, verdicts |-> <<>>, next_ip_number |-> g.next_ip_number,
            called |-> TRUE, ip |-> g.ip, sent |-> None]
      ELSE With(Verdict(<<>>, "accept"), LAMBDA a :
             [raised |-> a.raised, verdicts |-> a.verdicts,
              next_ip_number |-> g.next_ip_number,
              called |-> TRUE, ip |-> g.ip,
              sent |-> rewrite(Datagram, g.ip, random_ephemeral_port(choice))]))

\* a callback whose exception handler logs and issues no verdict
packet_spoofer_without_drop(ips, next_ip_number, payload, choice) ==
  With(spoof_and_accept(ips, next_ip_number, payload, choice), LAMBDA t :
    [payload |-> payload, verdicts |-> t.verdicts, escaped |-> FALSE,
     next_ip_number |-> t.next_ip_number,
     called |-> t.called, ip |-> t.ip, sent |-> t.sent])

\* Spoofer.packet_spoofer: the verdicts issued on the packet, whether an
\* exception left the callback, the worker's next address index, whether
\* get_spoofed_ip was called and what it returned, and the packet handed to
\* set_payload
packet_spoofer(ips, next_ip_number, payload, choice) ==
  With(spoof_and_accept(ips, next_ip_number, payload, choice), LAMBDA t :
    IF ~t.raised
    THEN [payload |-> payload, verdicts |-> t.verdicts, escaped |-> FALSE,
          next_ip_number |-> t.next_ip_number,
          called |-> t.called, ip |-> t.ip, sent |-> t.sent]
    ELSE With(Verdict(t.verdicts, "drop"), LAMBDA d :
           [payload |-> payload, verdicts |-> d.verdicts, escaped |-> d.raised,
            next_ip_number |-> t.next_ip_number,
            called |-> t.called, ip |-> t.ip, sent |-> t.sent]))

\* Spoofer.__init__: the cursor at 0 and the list of the subnet's hosts
PacketInit ==
  /\ LedgerEmpty
  /\ NoSession
  /\ packet \in [ips : SpoofedIpCounts, next_ip_number : {0}, handled : {<<>>}]
  /\ anchor = NoAnchor
  /\ tag = NoTag
  /\ coord = NoCoordinator
  /\ worker = NoWorker
  /\ NoControl

\* the queue delivers one packet to the callback
PacketSpoofer(payload, choice) ==
  /\ Len(packet.handled) < MaxPackets
  /\ \E r \in {packet_spoofer(packet.ips, packet.next_ip_number, payload, choice)} :
       packet' = [packet EXCEPT !.next_ip_number = r.next_ip_number,
                                !.handled = Append(@, r)]
  /\ UNCHANGED <<ledgerVars, sessionVars, anchor, tag, coord, worker, controlVars>>

PacketNext == \E payload \in Payloads, choice \in RandomChoices : PacketSpoofer(payload, choice)

PacketSpec == PacketInit /\ [][PacketNext]_vars

(***************************************************************************)
(* The anchor jump: ensure_chain_and_anchor as one call, and as the three  *)
(* iptables commands that two processes run one at a time.                 *)
(***************************************************************************)
AnchorChains == {<<"INPUT">>, <<"OUTPUT">>}

\* the jump rules from a chain into the dedicated chain
JumpCount(f, table, chain) ==
  IF <<table, chain>> \notin DOMAIN f THEN 0
  ELSE Cardinality({i \in 1..Len(f[<<table, chain>>]) :
                      f[<<table, chain>>][i].target = STORMSHADOW_CHAIN})

\* one whole call of ensure_chain_and_anchor
EnsureChainAndAnchor(s, chain) ==
  /\ inserted + 1 <= MaxRules
  /\ fw' = ensure_chain_and_anchor(fw, chain, "filter", s, FALSE, now)
  /\ inserted' = inserted + TotalRules(fw') - TotalRules(fw)
  /\ last' = Op("ensure_chain_and_anchor", s, 0, "filter", chain, 0)
  /\ UNCHANGED <<hb, now, sessionVars, componentVars>>

AnchorNext ==
  \/ Tick
  \/ \E s \in Suids, chain \in AnchorChains : EnsureChainAndAnchor(s, chain)

AnchorSpec == LedgerInit /\ [][AnchorNext]_vars

\* step 1 of ensure_chain_and_anchor: iptables -N, whose failure is ignored
AnchorNewChain(p, s, chain) ==
  /\ anchor[p].pc = "idle"
  /\ fw' = IptNewChain(fw, "filter", STORMSHADOW_CHAIN)
  /\ anchor' = [anchor EXCEPT ![p] = [pc |-> "check", suid |-> s, chain |-> chain]]
  /\ UNCHANGED <<hb, now, last, inserted, sessionVars, packet, tag, coord, worker, controlVars>>

\* step 2: iptables -C; the jump is inserted when the check fails
AnchorCheck(p) ==
  /\ anchor[p].pc = "check"
  /\ anchor' = [anchor EXCEPT ![p].pc =
                  IF IptCheck(fw, "filter", anchor[p].chain, Rule(<<>>, <<>>, STORMSHADOW_CHAIN))
                  THEN "done" ELSE "insert"]
  /\ UNCHANGED <<ledgerVars, sessionVars, packet, tag, coord, worker, controlVars>>

\* the insertion of the tagged jump; its failure is logged as a warning
AnchorInsert(p) ==
  /\ anchor[p].pc = "insert"
  /\ \E r \in {IptInsert(fw, "filter", anchor[p].chain,
                         AnchorRule(anchor[p].suid, now, anchor[p].chain,
                                    STORMSHADOW_CHAIN, FALSE))} :
       /\ fw' = r.fw
       /\ anchor' = [anchor EXCEPT ![p].pc = IF r.ok THEN "done" ELSE "warned"]
  /\ inserted' = inserted + TotalRules(fw') - TotalRules(fw)
  /\ UNCHANGED <<hb, now, last, sessionVars, packet, tag, coord, worker, controlVars>>

AnchorRaceNext ==
  \/ Tick
  \/ \E p \in Procs, s \in Suids, chain \in AnchorChains : AnchorNewChain(p, s, chain)
  \/ \E p \in Procs : AnchorCheck(p)
  \/ \E p \in Procs : AnchorInsert(p)

AnchorRaceSpec == LedgerInit /\ [][AnchorRaceNext]_vars

(***************************************************************************)
(* Tags: a comment is built from a tuple and decoded again, and a text     *)
(* found in a rule listing is decoded.                                     *)
(***************************************************************************)
Stamps == {0, 7, 30, 120}

\* values of the extra argument: None, the empty text, texts with and without
\* colons, and texts that are or end with the NOT_DELETE token
Extras ==
  {<<>>, <<<<>>>>, <<<<"a">>>>, <<<<"a", COLON, "b">>>>, <<<<"a", COLON>>>>,
   <<<<NOT_DELETE>>>>, <<<<"a", COLON, NOT_DELETE>>>>}

\* texts that are not a comment of this system as _comment_for writes it
ForeignComments ==
  {<<"backup">>,
   <<"backup", COLON, "1">>,
   <<"x", COMMENT_PREFIX, COLON, "1", COLON, "7">>,
   <<SP, COMMENT_PREFIX, COLON, "1", COLON, "7">>,
   <<"/", "*", SP, COMMENT_PREFIX, COLON, "1", COLON, "7", SP, "*", "/">>,
   <<COMMENT_PREFIX>>,
   <<COMMENT_PREFIX, COLON, "1">>,
   <<COMMENT_PREFIX, COLON, "1", COLON, "x">>}

TagInit ==
  /\ LedgerEmpty
  /\ NoSession
  /\ NoComponents

\* _parse_comment(_comment_for(suid, created_ts, extra, preserve))
RoundTrip(suid, created_ts, extra, preserve) ==
  /\ \E c \in {comment_for(suid, created_ts, extra, preserve)} :
       tag' = [op |-> "round_trip", suid |-> suid, created_ts |-> created_ts,
               extra |-> extra, preserve |-> preserve,
               comment |-> c, parsed |-> parse_comment(c)]
  /\ UNCHANGED <<ledgerVars, sessionVars, packet, anchor, coord, worker, controlVars>>

\* _parse_comment(text)
ParseComment(text) ==
  /\ tag' = [op |-> "parse", suid |-> <<>>, created_ts |-> 0,
             extra |-> <<>>, preserve |-> FALSE,
             comment |-> text, parsed |-> parse_comment(text)]
  /\ UNCHANGED <<ledgerVars, sessionVars, packet, anchor, coord, worker, controlVars>>

TagNext ==
  \/ \E suid \in Suids, created_ts \in Stamps, extra \in Extras, preserve \in BOOLEAN :
       RoundTrip(suid, created_ts, extra, preserve)
  \/ \E text \in ForeignComments : ParseComment(text)

TagSpec == TagInit /\ [][TagNext]_vars

(***************************************************************************)
(* Rules of other tools: an administrator's rule whose comment resembles a *)
(* tag of this system without being one, in a chain the ledger works on.   *)
(***************************************************************************)
ResemblingComments ==
  {<<COMMENT_PREFIX, COLON, "1">>,
   <<"x", COMMENT_PREFIX, COLON, "1", COLON, "7">>}

\* where a foreign rule goes, and its target: a rule of the dedicated chain
\* and a jump from OUTPUT into it
ForeignPlaces ==
  {[key |-> <<"filter", STORMSHADOW_CHAIN>>, target |-> <<"ACCEPT">>],
   [key |-> <<"filter", <<"OUTPUT">>>>, target |-> STORMSHADOW_CHAIN]}

\* iptables -I <chain> -j <target> -m comment --comment <comment>, run by hand
AddForeignRule(place, comment) ==
  /\ inserted + 1 <= MaxRules
  /\ place.key \in DOMAIN fw
  /\ fw' = IptInsert(fw, place.key[1], place.key[2], Rule(<<>>, comment, place.target)).fw
  /\ inserted' = inserted + 1
  /\ last' = NoOp
  /\ UNCHANGED <<hb, now, sessionVars, componentVars>>

ForeignNext ==
  \/ Tick
  \/ \E s \in Suids : AddNfqueueRuleTagged(s, FALSE)
  \/ \E place \in ForeignPlaces, comment \in ResemblingComments : AddForeignRule(place, comment)
  \/ \E s \in Suids : RemoveRulesForSuid(s, "filter", STORMSHADOW_CHAIN)
  \/ \E s \in Suids : RemoveAllRulesForSuid(s)
  \/ \E ttl \in TTLs : CleanupStaleRules(ttl)

ForeignSpec == LedgerInit /\ [][ForeignNext]_vars

(***************************************************************************)
(* The spoofing coordinator, SipPacketSpoofer.  A call is one action; what *)
(* the operating system and the worker do (a signal is delivered or not, a *)
(* wait ends or times out, the worker binds its queue and reports ready or *)
(* not) is chosen by the environment.  A worker is a number; handle 0 is   *)
(* no handle.                                                              *)
(***************************************************************************)
MaxStarts == 2

Event(call, result) == [call |-> call, result |-> result]

\* what the environment decides during stop_spoofing
StopEnvs ==
  [term : {"sent", "ProcessLookupError", "OSError"},
   terminate : {"sent", "raises"},
   graceful : {"exited", "TimeoutExpired"},
   kill : {"sent", "ProcessLookupError", "OSError"},
   forced : {"exited", "TimeoutExpired"}]

\* what the environment decides during start_spoofing
StartEnvs ==
  [rule : {"ok", "failed"},
   launch : {"launched", "raised"},
   bind : {"bound", "OSError"},
   ready : {"ready", "timeout"},
   raw_launch : {"launched", "raised"},
   raw_ready : {"ready", "timeout"}]

\* a worker that has exited is gone for the process table or still a zombie;
\* it does not outlive a wait
StopEnvFits(c, e) ==
  /\ e.term = "ProcessLookupError" => c.spoofer_process \notin c.workers
  /\ c.spoofer_process \notin c.workers => e.graceful = "exited"

\* a worker that could not bind its queue exits without reporting ready
StartEnvFits(e) == e.bind = "OSError" => e.ready = "timeout"

\* the graceful attempt: SIGTERM to the worker's group, to the worker itself
\* when the group cannot be signalled
graceful_attempt(e) ==
  <<Event("killpg_SIGTERM", e.term)>>
    \o (IF e.term = "OSError" THEN <<Event("terminate", e.terminate)>> ELSE <<>>)

\* a termination that kills the group at once
terminate_worker_kill_first(e) ==
  <<Event("killpg_SIGKILL", e.kill)>> \o graceful_attempt(e)
    \o <<Event("wait_graceful", e.graceful)>>

\* the termination of the worker in stop_spoofing: the calls made, in order
terminate_worker(e) ==
  IF e.term = "OSError" /\ e.terminate = "raises" THEN graceful_attempt(e)
  ELSE graceful_attempt(e) \o <<Event("wait_graceful", e.graceful)>>
         \o (IF e.graceful # "TimeoutExpired" THEN <<>>
             ELSE <<Event("killpg_SIGKILL", e.kill)>>
                    \o (IF e.kill = "sent" THEN <<Event("wait_forced", e.forced)>>
                        ELSE <<>>))

\* the worker is gone after these calls: a wait saw it exit, or it was killed
WorkerGone(events) ==
  \E i \in 1..Len(events) :
    \/ events[i].call \in {"wait_graceful", "wait_forced"} /\ events[i].result = "exited"
    \/ events[i].call = "killpg_SIGKILL" /\ events[i].result = "sent"

\* a stop that reports whether the worker was stopped
stop_spoofing_returns_any_cleanup(c, f, suid, e) ==
  With(IF c.spoofer_process = 0 THEN <<>> ELSE terminate_worker(e), LAMBDA events :
  With(remove_binding_rules(f, suid), LAMBDA r :
    [fw |-> r.fw,
     coord |-> [c EXCEPT !.op = "stop", !.events = events, !.spoofer_process = 0,
                         !.workers = IF WorkerGone(events) THEN @ \ {c.spoofer_process}
                                     ELSE @,
                         !.returned = IF r.removed \/ WorkerGone(events)
                                      THEN "True" ELSE "False"]]))

\* SipPacketSpoofer.stop_spoofing
stop_spoofing(c, f, suid, e) ==
  IF c.dry_run
  THEN [fw |-> f, coord |-> [c EXCEPT !.op = "stop", !.events = <<>>, !.returned = "True"]]
  ELSE
    With(IF c.spoofer_process = 0 THEN <<>> ELSE terminate_worker(e), LAMBDA events :
    With(remove_binding_rules(f, suid), LAMBDA r :
      [fw |-> r.fw,
       coord |-> [c EXCEPT !.op = "stop", !.events = events, !.spoofer_process = 0,
                           !.workers = IF WorkerGone(events) THEN @ \ {c.spoofer_process}
                                       ELSE @,
                           !.returned = IF r.removed THEN "True" ELSE "False"]]))

\* _start_raw_socket_spoofing, after the calls `events` of start_spoofing
start_raw_socket_spoofing(c, events, e) ==
  IF e.raw_launch = "raised"
  THEN [c EXCEPT !.events = events \o <<Event("run_python_raw_spoofer", "raised")>>,
                 !.returned = "False"]
  ELSE [c EXCEPT !.events = events \o <<Event("run_python_raw_spoofer", "launched"),
                                        Event("wait_ready_signal", e.raw_ready)>>,
                 !.launched = @ + 1,
                 !.spoofer_process = c.launched + 1,
                 !.workers = @ \cup {c.launched + 1},
                 !.returned = "True"]

\* the launch of the queue-bound worker and the wait for its readiness
launch_worker(c, events, e) ==
  IF e.launch = "raised"
  THEN start_raw_socket_spoofing(c, events \o <<Event("run_python_spoofer", "raised")>>, e)
  ELSE [c EXCEPT !.events = events \o <<Event("run_python_spoofer", "launched"),
                                        Event("worker_bind", e.bind),
                                        Event("wait_ready_signal", e.ready)>>,
                 !.launched = @ + 1,
                 !.spoofer_process = c.launched + 1,
                 !.workers = IF e.bind = "bound" THEN @ \cup {c.launched + 1} ELSE @,
                 !.returned = "True"]

\* a start that looks at dry_run only after the queue rule is installed
start_spoofing_dry_run_after_rule(c, f, h, suid, t, e, se) ==
  With(IF c.netfilter_spoofing_queue # "none" THEN stop_spoofing(c, f, suid, se)
       ELSE [fw |-> f, coord |-> c], LAMBDA pre :
  With([pre.coord EXCEPT !.op = "start", !.starts = @ + 1, !.events = <<>>], LAMBDA c1 :
  With(heartbeat_touch(h, suid, t), LAMBDA h1 :
    IF e.rule = "failed"
    THEN [fw |-> ensure_chain_and_anchor(pre.fw, <<"OUTPUT">>, "filter", suid, FALSE, t),
          hb |-> h1,
          coord |-> [c1 EXCEPT !.events = <<Event("add_nfqueue_rule_tagged", "failed")>>,
                               !.returned = "False"]]
    ELSE IF c1.dry_run
    THEN [fw |-> add_nfqueue_rule_tagged(pre.fw, QUEUE_NUM, DST_PORT, suid, <<"OUTPUT">>,
                                         FALSE, t).fw,
          hb |-> h1, coord |-> [c1 EXCEPT !.returned = "True"]]
    ELSE [fw |-> add_nfqueue_rule_tagged(pre.fw, QUEUE_NUM, DST_PORT, suid, <<"OUTPUT">>,
                                         FALSE, t).fw,
          hb |-> h1,
          coord |-> launch_worker(c1, <<Event("add_nfqueue_rule_tagged", "ok")>>, e)])))

\* SipPacketSpoofer.start_spoofing on a host without the ipset tool; e and se
\* are the environment's decisions for the start and for the stop it may call
start_spoofing(c, f, h, suid, t, e, se) ==
  With(IF c.netfilter_spoofing_queue # "none" THEN stop_spoofing(c, f, suid, se)
       ELSE [fw |-> f, coord |-> c], LAMBDA pre :
  With([pre.coord EXCEPT !.op = "start", !.starts = @ + 1, !.events = <<>>], LAMBDA c1 :
  With(heartbeat_touch(h, suid, t), LAMBDA h1 :
    IF c1.dry_run
    THEN [fw |-> pre.fw, hb |-> h1, coord |-> [c1 EXCEPT !.returned = "True"]]
    ELSE IF e.rule = "failed"
    THEN [fw |-> ensure_chain_and_anchor(pre.fw, <<"OUTPUT">>, "filter", suid, FALSE, t),
          hb |-> h1,
          coord |-> [c1 EXCEPT !.events = <<Event("add_nfqueue_rule_tagged", "failed")>>,
                               !.returned = "False"]]
    ELSE [fw |-> add_nfqueue_rule_tagged(pre.fw, QUEUE_NUM, DST_PORT, suid, <<"OUTPUT">>,
                                         FALSE, t).fw,
          hb |-> h1,
          coord |-> launch_worker(c1, <<Event("add_nfqueue_rule_tagged", "ok")>>, e)])))

CoordInit ==
  /\ LedgerEmpty
  /\ NoSession
  /\ packet = NoPacket
  /\ anchor = NoAnchor
  /\ tag = NoTag
  /\ worker = NoWorker
  /\ NoControl
  /\ coord \in {[NoCoordinator EXCEPT !.dry_run = d] : d \in BOOLEAN}

\* the stop that start_spoofing may call gets its own environment
NestedStopEnvs(c) ==
  IF c.netfilter_spoofing_queue # "none" THEN {se \in StopEnvs : StopEnvFits(c, se)}
  ELSE {CHOOSE se \in StopEnvs : TRUE}

StartSpoofing(e) ==
  /\ coord.starts < MaxStarts
  /\ inserted + 2 <= MaxRules
  /\ StartEnvFits(e)
  /\ \E se \in NestedStopEnvs(coord) :
       \E r \in {start_spoofing(coord, fw, hb, OwnSuid, now, e, se)} :
         /\ fw' = r.fw
         /\ hb' = r.hb
         /\ coord' = r.coord
  /\ inserted' = inserted + TotalRules(fw') - TotalRules(fw)
  /\ last' = Op("start_spoofing", OwnSuid, 0, "filter", STORMSHADOW_CHAIN, 0)
  /\ UNCHANGED <<now, sessionVars, packet, anchor, tag, worker, controlVars>>

StopSpoofing(e) ==
  /\ StopEnvFits(coord, e)
  /\ \E r \in {stop_spoofing(coord, fw, OwnSuid, e)} :
       /\ fw' = r.fw
       /\ coord' = r.coord
  /\ last' = Op("stop_spoofing", OwnSuid, 0, "filter", STORMSHADOW_CHAIN, 0)
  /\ UNCHANGED <<hb, now, inserted, sessionVars, packet, anchor, tag, worker, controlVars>>

CoordNext ==
  \/ Tick
  \/ \E e \in StartEnvs : StartSpoofing(e)
  \/ \E e \in StopEnvs : StopSpoofing(e)
  \/ RemoveRulesForSuid(OwnSuid, "filter", STORMSHADOW_CHAIN)

CoordSpec == CoordInit /\ [][CoordNext]_vars

\* the coordinator on a host where sessions install their rules meanwhile
CoordHostNext ==
  \/ Tick
  \/ \E s \in Suids : AddNfqueueRuleTagged(s, FALSE)
  \/ \E e \in StartEnvs : StartSpoofing(e)
  \/ \E e \in StopEnvs : StopSpoofing(e)

CoordHostSpec == CoordInit /\ [][CoordHostNext]_vars

(***************************************************************************)
(* The main line of the spoofing worker, from the registration of its      *)
(* signal handlers on, next to the coordinator that launched it and then   *)
(* listens on the readiness socket of the queue.  The packet callback runs *)
(* while the worker is inside NetfilterQueue.run().                        *)
(***************************************************************************)
\* a main line that signals readiness before it binds the queue
main_ready_before_bind ==
  <<"send_ready_signal", "bind", "run">>

\* the try block of __main__: bind, send_ready_signal, run
main ==
  <<"bind", "send_ready_signal", "run">>

\* the coordinator has launched the worker and has not yet created the socket
WorkerInit ==
  /\ LedgerEmpty
  /\ NoSession
  /\ packet \in [ips : SpoofedIpCounts, next_ip_number : {0}, handled : {<<>>}]
  /\ anchor = NoAnchor
  /\ tag = NoTag
  /\ coord = NoCoordinator
  /\ worker = [todo |-> main, alive |-> TRUE, exit_code |-> 0, socket |-> "absent",
               heard |-> FALSE, events |-> <<>>]
  /\ NoControl

\* the worker does event, which ends the process with exit code code
WorkerExit(event, code) ==
  worker' = [worker EXCEPT !.alive = FALSE, !.exit_code = code, !.todo = <<>>,
                           !.events = Append(@, event)]

\* the worker does event and goes on with the rest of its main line
WorkerProceed(event) ==
  worker' = [worker EXCEPT !.todo = Tail(@), !.events = Append(@, event)]

\* netfilter_spoofing_queue.bind: it returns, or raises OSError and the worker
\* leaves with sys.exit(1)
WorkerBind(ok) ==
  /\ worker.alive
  /\ worker.todo # <<>> /\ Head(worker.todo) = "bind"
  /\ IF ok THEN WorkerProceed("bind") ELSE WorkerExit("bind!", 1)
  /\ UNCHANGED <<ledgerVars, sessionVars, packet, anchor, tag, coord, controlVars>>

\* spoofer.send_ready_signal(): sendto on the socket path; without a socket
\* bound to the path it raises, and the handler of the main line for Exception
\* leaves with sys.exit(1)
WorkerSendReady ==
  /\ worker.alive
  /\ worker.todo # <<>> /\ Head(worker.todo) = "send_ready_signal"
  /\ IF worker.socket = "listening"
     THEN worker' = [worker EXCEPT !.todo = Tail(@), !.events = Append(@, "ready"),
                                   !.socket = "notified"]
     ELSE WorkerExit("ready!", 1)
  /\ UNCHANGED <<ledgerVars, sessionVars, packet, anchor, tag, coord, controlVars>>

\* the queue calls the callback while the worker is inside run()
WorkerPacket(payload, choice) ==
  /\ worker.alive
  /\ worker.todo # <<>> /\ Head(worker.todo) = "run"
  /\ PacketSpoofer(payload, choice)

\* SIGTERM or SIGINT: Spoofer.cleanup unbinds the queue and calls os._exit(0)
WorkerSignal ==
  /\ worker.alive
  /\ WorkerExit("signal", 0)
  /\ UNCHANGED <<ledgerVars, sessionVars, packet, anchor, tag, coord, controlVars>>

\* wait_ready_signal up to settimeout: an old socket file is removed and the
\* socket is bound to the path
CoordinatorListen ==
  /\ worker.socket = "absent"
  /\ ~worker.heard
  /\ \A i \in 1..Len(worker.events) : worker.events[i] # "listen"
  /\ worker' = [worker EXCEPT !.socket = "listening", !.events = Append(@, "listen")]
  /\ UNCHANGED <<ledgerVars, sessionVars, packet, anchor, tag, coord, controlVars>>

\* wait_ready_signal from recvfrom on: the datagram or the timeout, then the
\* socket is closed and its file removed
CoordinatorWait ==
  /\ worker.socket \in {"listening", "notified"}
  /\ worker' = [worker EXCEPT !.socket = "absent", !.heard = (worker.socket = "notified"),
                              !.events = Append(@, IF worker.socket = "notified"
                                                    THEN "heard" ELSE "timeout")]
  /\ UNCHANGED <<ledgerVars, sessionVars, packet, anchor, tag, coord, controlVars>>

WorkerNext ==
  \/ \E ok \in BOOLEAN : WorkerBind(ok)
  \/ WorkerSendReady
  \/ \E payload \in Payloads, choice \in RandomChoices : WorkerPacket(payload, choice)
  \/ WorkerSignal
  \/ CoordinatorListen
  \/ CoordinatorWait

WorkerSpec == WorkerInit /\ [][WorkerNext]_vars

(***************************************************************************)
(* The garbage collector when its commands and system calls fail.  One     *)
(* call of cleanup_stale_rules runs in an environment e:                   *)
(*   tool     "missing": no iptables program, subprocess.run raises        *)
(*            FileNotFoundError                                            *)
(*   dry_run  the argument dry_run: run_command raises RuntimeError for    *)
(*            every command that is given it (the listings are not)        *)
(*   stat     "denied": os.stat of a heartbeat file raises PermissionError *)
(*   failing  the chains whose deletions exit non-zero                     *)
(***************************************************************************)
ToolEnv(tool, dry_run, stat, failing) ==
  [tool |-> tool, dry_run |-> dry_run, stat |-> stat, failing |-> failing]

\* the environment in which nothing fails, and the five with one failure
ToolEnvs ==
  {ToolEnv("ok", FALSE, "ok", {}),
   ToolEnv("missing", FALSE, "ok", {}),
   ToolEnv("ok", TRUE, "ok", {}),
   ToolEnv("ok", FALSE, "denied", {}),
   ToolEnv("ok", FALSE, "ok", {<<"filter", <<"OUTPUT">>>>}),
   ToolEnv("ok", FALSE, "ok", {<<"filter", STORMSHADOW_CHAIN>>})}

\* deletions from the chains keys exit non-zero: CalledProcessError is caught
\* for each of them, so the sweep goes on as if the chains held no rule, and
\* their rules stay
Spared(f, keys) == [k \in DOMAIN f |-> IF k \in keys THEN <<>> ELSE f[k]]

Unspared(g, f, keys) == [k \in DOMAIN g |-> IF k \in keys THEN f[k] ELSE g[k]]

\* the lines of a dedicated chain for which should_remove reads the heartbeat file
StatLines(f, table, chain) ==
  With(iptables_S(f, chain, table), LAMBDA lines :
    {i \in 1..Len(lines) :
       /\ IsTaggedLine(lines[i])
       /\ parse_comment(comment_text_of(lines[i])).ok
       /\ ~parse_comment(comment_text_of(lines[i])).preserve})

\* the lines of a dedicated chain for which should_remove names an owner
CandidateLines(f, h, ttl_seconds, t, table, chain) ==
  With(iptables_S(f, chain, table), LAMBDA lines :
    {i \in 1..Len(lines) :
       /\ IsTaggedLine(lines[i])
       /\ Truthy(should_remove(h, ttl_seconds, t, comment_text_of(lines[i])))})

\* one of the two loops over a dedicated chain: should_remove and
\* remove_rules_for_suid are called outside any try block, so PermissionError
\* of os.stat and RuntimeError of the dry run leave cleanup_stale_rules
sweep_dedicated(acc, h, ttl_seconds, t, table, chain, e) ==
  IF acc.raised THEN acc
  ELSE IF e.stat = "denied" /\ StatLines(acc.fw, table, chain) # {}
  THEN [acc EXCEPT !.raised = TRUE]
  ELSE IF e.dry_run /\ CandidateLines(acc.fw, h, ttl_seconds, t, table, chain) # {}
  THEN [acc EXCEPT !.raised = TRUE]
  ELSE
    With(Spared(acc.fw, e.failing), LAMBDA g :
    With(SweepChainLines([fw |-> g, removed |-> acc.removed], iptables_S(g, chain, table),
                         1, h, ttl_seconds, t, table, chain), LAMBDA s :
      [fw |-> Unspared(s.fw, acc.fw, e.failing), removed |-> s.removed, raised |-> FALSE]))

\* the anchor loops: every exception of a line is caught by the handler of
\* the line, which is then left as it is
sweep_anchors(f, h, ttl_seconds, t, e) ==
  IF e.dry_run \/ e.stat = "denied" THEN [fw |-> f, removed |-> 0, raised |-> FALSE]
  ELSE With(SweepAnchorChains([fw |-> Spared(f, e.failing), removed |-> 0], 1,
                              h, ttl_seconds, t), LAMBDA a :
         [fw |-> Unspared(a.fw, f, e.failing), removed |-> a.removed, raised |-> FALSE])

\* cleanup_stale_rules in environment e: the firewall and the heartbeat
\* directory it leaves, the count, and whether an exception left the function
cleanup_stale_rules_under(f, h, ttl_seconds, t, e) ==
  With(IF e.dry_run \/ e.stat = "denied" THEN h
       ELSE cleanup_stale_heartbeats(h, ttl_seconds, t), LAMBDA h1 :
    IF e.tool = "missing" THEN [fw |-> f, hb |-> h1, removed |-> 0, raised |-> TRUE]
    ELSE
      With(sweep_anchors(f, h1, ttl_seconds, t, e), LAMBDA a :
      With(sweep_dedicated(a, h1, ttl_seconds, t, "filter", STORMSHADOW_CHAIN, e), LAMBDA b :
      With(sweep_dedicated(b, h1, ttl_seconds, t, "nat", STORMSHADOW_NAT_CHAIN, e), LAMBDA c :
        [fw |-> c.fw, hb |-> h1, removed |-> c.removed, raised |-> c.raised]))))

CleanupStaleRulesUnder(ttl, e) ==
  /\ \E r \in {cleanup_stale_rules_under(fw, hb, ttl, now, e)} :
        /\ fw' = r.fw
        /\ hb' = r.hb
        /\ last' = [op |-> "cleanup_stale_rules_under", ttl |-> ttl, env |-> e,
                    removed |-> r.removed, raised |-> r.raised]
  /\ UNCHANGED <<now, inserted, sessionVars>>
  /\ UNCHANGED componentVars

GcUnderNext ==
  \/ Tick
  \/ \E s \in Suids : HeartbeatTouch(s)
  \/ \E s \in Suids, preserve \in BOOLEAN : AddNfqueueRuleTagged(s, preserve)
  \/ \E s \in Suids : ActivateReturnPath(s)
  \/ \E ttl \in TTLs, e \in ToolEnvs : CleanupStaleRulesUnder(ttl, e)

GcUnderSpec == LedgerInit /\ [][GcUnderNext]_vars

(***************************************************************************)
(* remove_rules_for_suid under tool failures.  The listing catches only    *)
(* CalledProcessError, and so does the handler around each deletion: the   *)
(* FileNotFoundError of a missing tool leaves the function at the listing, *)
(* and the RuntimeError that run_command raises under dry_run leaves it at *)
(* the first matching line.                                                *)
(***************************************************************************)
MatchingLines(f, suid, table, chain) ==
  With(iptables_S(f, chain, table), LAMBDA lines :
    {i \in 1..Len(lines) : IsTaggedLine(lines[i]) /\ Contains(lines[i], suid)})

remove_rules_for_suid_under(f, suid, table, chain, e) ==
  IF e.tool = "missing" THEN [fw |-> f, removed |-> 0, raised |-> TRUE]
  ELSE IF e.dry_run /\ MatchingLines(f, suid, table, chain) # {}
  THEN [fw |-> f, removed |-> 0, raised |-> TRUE]
  ELSE IF e.dry_run \/ <<table, chain>> \in e.failing
  THEN [fw |-> f, removed |-> 0, raised |-> FALSE]
  ELSE With(remove_rules_for_suid(f, suid, table, chain), LAMBDA r :
         [fw |-> r.fw, removed |-> r.removed, raised |-> FALSE])

RemoveRulesForSuidUnder(s, table, chain, e) ==
  /\ \E r \in {remove_rules_for_suid_under(fw, s, table, chain, e)} :
        /\ fw' = r.fw
        /\ last' = [op |-> "remove_rules_for_suid_under", suid |-> s, table |-> table,
                    chain |-> chain, env |-> e, matching |-> Cardinality(MatchingLines(fw, s, table, chain)),
                    removed |-> r.removed, raised |-> r.raised]
  /\ UNCHANGED <<hb, now, inserted, sessionVars>>
  /\ UNCHANGED componentVars

RemoveUnderNext ==
  \/ Tick
  \/ \E s \in Suids, preserve \in BOOLEAN : AddNfqueueRuleTagged(s, preserve)
  \/ \E s \in Suids : ActivateReturnPath(s)
  \/ \E s \in Suids, e \in ToolEnvs :
       \/ RemoveRulesForSuidUnder(s, "filter", STORMSHADOW_CHAIN, e)
       \/ RemoveRulesForSuidUnder(s, "nat", STORMSHADOW_NAT_CHAIN, e)
       \/ RemoveRulesForSuidUnder(s, "nat", STORMSHADOW_CHAIN, e)

RemoveUnderSpec == LedgerInit /\ [][RemoveUnderNext]_vars

(***************************************************************************)
(* The command-line controller (main.py).  After setup the main line       *)
(* registers the handler for SIGINT, SIGTERM, SIGHUP and SIGQUIT one       *)
(* signal at a time, calls run and pauses.  A signal that arrives runs the *)
(* handler if it is registered for that signal, between two statements of  *)
(* whatever runs in the main thread (the handler itself included), and has *)
(* its default disposition, which ends the process, otherwise.             *)
(***************************************************************************)
MaxSignals == 2

Signals == {"SIGINT", "SIGTERM", "SIGHUP", "SIGQUIT"}

\* main, from the return of setup on
cli_main ==
  <<"SIGINT", "SIGTERM", "SIGHUP", "SIGQUIT", "run", "pause">>

ControllerInit ==
  /\ LedgerEmpty
  /\ NoSession
  /\ packet = NoPacket /\ anchor = NoAnchor /\ tag = NoTag /\ coord = NoCoordinator
  /\ worker = NoWorker
  /\ storms = NoStorms
  /\ attacks = NoAttacks
  /\ controller = [todo |-> cli_main, handlers |-> {}, in_handler |-> 0,
                   alive |-> TRUE, exit_code |-> 0, stop_raised |-> FALSE,
                   events |-> <<>>]

\* the process ends with exit code code
controller_exit(c, code) ==
  [c EXCEPT !.alive = FALSE, !.exit_code = code, !.todo = <<>>, !.in_handler = 0]

\* the handler is entered for signal sig, and calls StormShadow.stop
signal_handler_without_stop(c, sig) ==
  [c EXCEPT !.in_handler = @ + 1,
            !.events = Append(@, [signal |-> sig, registered |-> TRUE, stop |-> FALSE])]

signal_handler(c, sig) ==
  [c EXCEPT !.in_handler = @ + 1,
            !.events = Append(@, [signal |-> sig, registered |-> TRUE, stop |-> TRUE])]

\* the default disposition of the four signals ends the process (SIGINT as
\* a KeyboardInterrupt that nothing catches): a negative exit code stands
\* for the death by a signal
default_disposition(c, sig) ==
  controller_exit([c EXCEPT !.events =
                     Append(@, [signal |-> sig, registered |-> FALSE, stop |-> FALSE])],
                  -1)

\* stop returns or raises in the innermost handler that runs: the finally
\* clause calls sys.exit(0), and SystemExit passes every handler around it
handler_finally(c, raises) ==
  controller_exit([c EXCEPT !.stop_raised = raises], 0)

ControllerStep(c) ==
  /\ controller' = c
  /\ UNCHANGED <<ledgerVars, sessionVars, packet, anchor, tag, coord, worker, storms,
                 attacks>>

\* signal.signal(sig, handler)
ControllerRegister ==
  /\ controller.alive /\ controller.in_handler = 0
  /\ controller.todo # <<>> /\ Head(controller.todo) \in Signals
  /\ ControllerStep([controller EXCEPT !.handlers = @ \cup {Head(controller.todo)},
                                       !.todo = Tail(@)])

\* stormshadow.run(): it returns, or it raises and main stops the instance
\* and returns 1
ControllerRun(raises) ==
  /\ controller.alive /\ controller.in_handler = 0
  /\ controller.todo # <<>> /\ Head(controller.todo) = "run"
  /\ ControllerStep(IF raises THEN controller_exit(controller, 1)
                    ELSE [controller EXCEPT !.todo = Tail(@)])

\* the process receives sig
ControllerSignal(sig) ==
  /\ controller.alive
  /\ Len(controller.events) < MaxSignals
  /\ ControllerStep(IF sig \in controller.handlers THEN signal_handler(controller, sig)
                    ELSE default_disposition(controller, sig))

ControllerHandlerEnds(raises) ==
  /\ controller.alive /\ controller.in_handler > 0
  /\ ControllerStep(handler_finally(controller, raises))

ControllerNext ==
  \/ ControllerRegister
  \/ \E raises \in BOOLEAN : ControllerRun(raises)
  \/ \E sig \in Signals : ControllerSignal(sig)
  \/ \E raises \in BOOLEAN : ControllerHandlerEnds(raises)

ControllerSpec == ControllerInit /\ [][ControllerNext]_vars

(***************************************************************************)
(* StormShadow instances and their heartbeat threads (stormshadow.py).     *)
(* The constructor starts the thread of the instance, which touches the    *)
(* heartbeat file of the session id and then waits on the stop event with  *)
(* a timeout between two touches.  stop sets the event, joins the thread   *)
(* for at most two seconds, removes the file and the rules of the session  *)
(* id.  The instances of the graphical manager share one session id, and   *)
(* so one heartbeat file.                                                  *)
(***************************************************************************)
\* the statements of StormShadow.stop that touch the heartbeat
stop ==
  <<"set", "join", "cleanup">>

Storm(i, s) ==
  /\ storms' = [storms EXCEPT ![i] = s]
  /\ UNCHANGED <<now, last, inserted, sessionVars, packet, anchor, tag, coord, worker,
                 controller, attacks>>

\* StormShadow(...): _start_heartbeat clears the event and starts the thread
StormCreate(i) ==
  /\ ~storms[i].created
  /\ Storm(i, [storms[i] EXCEPT !.created = TRUE, !.hb_stop = FALSE, !.hb_thread = "touch"])
  /\ UNCHANGED <<fw, hb>>

\* _hb_loop: heartbeat_touch
HbLoopTouch(i) ==
  /\ storms[i].hb_thread = "touch"
  /\ hb' = heartbeat_touch(hb, OwnSuid, now)
  /\ Storm(i, [storms[i] EXCEPT !.hb_thread = "wait"])
  /\ UNCHANGED fw

\* _hb_loop: _hb_stop.wait(timeout) returns True when the event is set, which
\* ends the thread, and False when the interval has passed
HbLoopWait(i) ==
  /\ storms[i].hb_thread = "wait"
  /\ Storm(i, [storms[i] EXCEPT !.hb_thread = IF storms[i].hb_stop THEN "done" ELSE "touch"])
  /\ UNCHANGED <<fw, hb>>

\* StormShadow.run of an instance whose attack installs its queue rule
StormRun(i) ==
  /\ storms[i].created /\ ~storms[i].is_running /\ storms[i].todo = <<>>
  /\ inserted + 2 <= MaxRules
  /\ fw' = add_nfqueue_rule_tagged(fw, QUEUE_NUM, DST_PORT, OwnSuid, <<"OUTPUT">>, FALSE, now).fw
  /\ storms' = [storms EXCEPT ![i].is_running = TRUE]
  /\ inserted' = inserted + TotalRules(fw') - TotalRules(fw)
  /\ UNCHANGED <<hb, now, last, sessionVars, packet, anchor, tag, coord, worker, controller,
                 attacks>>

\* StormShadow.stop is called (by stop_instance only for a running instance)
StormStop(i) ==
  /\ storms[i].created /\ storms[i].is_running /\ storms[i].todo = <<>>
  /\ Storm(i, [storms[i] EXCEPT !.todo = stop])
  /\ UNCHANGED <<fw, hb>>

\* _stop_heartbeat: self._hb_stop.set()
StopSet(i) ==
  /\ storms[i].todo # <<>> /\ Head(storms[i].todo) = "set"
  /\ Storm(i, [storms[i] EXCEPT !.hb_stop = TRUE, !.todo = Tail(@)])
  /\ UNCHANGED <<fw, hb>>

\* _stop_heartbeat: join(timeout=2) returns when the thread has ended or
\* when the two seconds have passed
StopJoin(i) ==
  /\ storms[i].todo # <<>> /\ Head(storms[i].todo) = "join"
  /\ Storm(i, [storms[i] EXCEPT !.todo = Tail(@)])
  /\ UNCHANGED <<fw, hb>>

\* heartbeat_remove and remove_all_rules_for_suid of the session id, and the
\* return of stop
StopCleanup(i) ==
  /\ storms[i].todo # <<>> /\ Head(storms[i].todo) = "cleanup"
  /\ hb' = heartbeat_remove(hb, OwnSuid)
  /\ fw' = remove_all_rules_for_suid(fw, OwnSuid).fw
  /\ Storm(i, [storms[i] EXCEPT !.todo = Tail(@), !.is_running = FALSE, !.stopped = TRUE])

\* one instance
HeartbeatNext ==
  \/ Tick
  \/ StormCreate(1) \/ HbLoopTouch(1) \/ HbLoopWait(1)
  \/ StormRun(1) \/ StormStop(1) \/ StopSet(1) \/ StopJoin(1) \/ StopCleanup(1)

HeartbeatSpec == LedgerInit /\ [][HeartbeatNext]_vars

\* the instances of the graphical manager
GuiNext ==
  \E i \in Instances :
    \/ StormCreate(i) \/ HbLoopTouch(i) \/ HbLoopWait(i)
    \/ StormRun(i) \/ StormStop(i) \/ StopSet(i) \/ StopJoin(i) \/ StopCleanup(i)

GuiSpec == LedgerInit /\ [][GuiNext]_vars

\* the sessions that install rules, shut down, and the garbage collector
TeardownNext ==
  \/ Tick
  \/ \E s \in Suids : HeartbeatTouch(s)
  \/ \E s \in Suids : AddNfqueueRuleTagged(s, FALSE)
  \/ \E s \in Suids : RemoveAllRulesForSuid(s)
  \/ \E ttl \in TTLs : CleanupStaleRules(ttl)

TeardownSpec == LedgerInit /\ [][TeardownNext]_vars

(***************************************************************************)
(* The heartbeat timer under the reference policy: the thread of a running *)
(* session touches the heartbeat file at the start and then each time the  *)
(* interval has passed, while another process may run the garbage          *)
(* collector with the default ttl at any time.  The clock advances in      *)
(* steps of ten minutes and never passes a touch that is due.              *)
(***************************************************************************)
MaxClockSteps == 12

ClockStep == 10 * 60

DEFAULT_TTL_SECONDS == 2 * 60 * 60

interval_above_half_ttl ==
  70 * 60

interval ==
  50 * 60

\* the session has started: its thread has touched the file
TimerInit ==
  /\ fw = EmptyFirewall
  /\ hb = heartbeat_touch(EmptyHb, OwnSuid, 0)
  /\ now = 0
  /\ last = NoOp
  /\ inserted = 0
  /\ NoSession
  /\ NoComponents

\* time passes, unless a touch is due
ClockTick ==
  /\ now < MaxClockSteps * ClockStep
  /\ OwnSuid \in DOMAIN hb => now - hb[OwnSuid] < interval
  /\ now' = now + ClockStep
  /\ last' = NoOp
  /\ UNCHANGED <<fw, hb, inserted, sessionVars>>
  /\ UNCHANGED componentVars

\* _hb_loop: the wait has timed out, the thread touches the file
TimerTouch ==
  /\ OwnSuid \in DOMAIN hb => now - hb[OwnSuid] >= interval
  /\ HeartbeatTouch(OwnSuid)

TimerNext ==
  \/ ClockTick
  \/ TimerTouch
  \/ AddNfqueueRuleTagged(OwnSuid, FALSE)
  \/ CleanupStaleRules(DEFAULT_TTL_SECONDS)

TimerSpec == TimerInit /\ [][TimerNext]_vars

(***************************************************************************)
(* The attack manager (attack_manager.py).  sessions are the attack        *)
(* sessions the manager has built, with their status; current_attack is    *)
(* the index of the one the manager holds, 0 for None.                     *)
(***************************************************************************)
MaxAttacks == 4

\* load_attack_module: the module is found and current_attack becomes a
\* session just built, or the module is not found
load_attack_module(a, found) ==
  IF found
  THEN [a EXCEPT !.sessions = Append(@, INITIALIZED), !.current_attack = Len(a.sessions) + 1]
  ELSE a

\* AttackSession.stop of session i, as the manager sees it: the session is
\* Stopped, or stop has returned early or raised and has left the status
session_stop(a, i, stopped) ==
  [a EXCEPT !.sessions[i] = IF stopped THEN STOPPED ELSE @,
            !.calls = Append(@, <<"stop", i>>)]

\* AttackSession.start and resume of session i: Running, or Failed
session_start(a, i, call, ok) ==
  [a EXCEPT !.sessions[i] = IF ok THEN RUNNING ELSE FAILED,
            !.calls = Append(@, <<call, i>>)]

\* the body of AttackManager.start after the loading
start_current(a, resumable, stopped, ok) ==
  With(IF a.sessions[a.current_attack] = RUNNING
       THEN session_stop(a, a.current_attack, stopped) ELSE a, LAMBDA b :
    IF b.sessions[b.current_attack] = STOPPED /\ resumable
    THEN session_start(b, b.current_attack, "resume", ok)
    ELSE session_start(b, b.current_attack, "start", ok))

AttackManagerStep(a) ==
  /\ attacks' = a
  /\ UNCHANGED <<ledgerVars, sessionVars, packet, anchor, tag, coord, worker, controller,
                 storms>>

\* AttackManager.start: RuntimeError when the module is not found
AttackManagerStart(found, resumable, stopped, ok) ==
  /\ Len(attacks.sessions) < MaxAttacks
  /\ \E a \in {load_attack_module([attacks EXCEPT !.calls = <<>>], found)} :
       AttackManagerStep(IF found THEN start_current(a, resumable, stopped, ok) ELSE a)

\* AttackManager.stop
AttackManagerStop(stopped) ==
  /\ attacks.current_attack # 0
  /\ AttackManagerStep(session_stop([attacks EXCEPT !.calls = <<>>],
                                    attacks.current_attack, stopped))

AttackManagerNext ==
  \/ \E found, resumable, stopped, ok \in BOOLEAN :
       AttackManagerStart(found, resumable, stopped, ok)
  \/ \E stopped \in BOOLEAN : AttackManagerStop(stopped)

AttackManagerSpec == LedgerInit /\ [][AttackManagerNext]_vars

(***************************************************************************)
(* Vocabulary of the properties below.                                     *)
(***************************************************************************)
\* the decoded tag of a rule
Tag(r) == parse_comment(r.comment)

\* how many rules of chain k are this very rule
Occurrences(f, k, r) == IF k \in DOMAIN f THEN Count(f[k], r) ELSE 0

\* the step deletes an occurrence of rule r from chain k
Deleted(k, r) == Occurrences(fw', k, r) < Occurrences(fw, k, r)

\* the step leaves the occurrences of rule r in chain k as they were
Kept(k, r) == Occurrences(fw', k, r) = Occurrences(fw, k, r)

\* the age of a rule and of a heartbeat file at the current clock
RuleAge(r) == now - Tag(r).created_ts

HeartbeatAge(s) == now - hb[s]

\* a heartbeat file exists and is younger than ttl / 2
HeartbeatFresh(s, ttl) == s \in DOMAIN hb /\ 2 * HeartbeatAge(s) < ttl

\* the chains cleanup_stale_rules lists
SweptKeys ==
  {<<"filter", FilterAnchors[i]>> : i \in 1..3}
    \cup {<<"filter", STORMSHADOW_CHAIN>>, <<"nat", STORMSHADOW_NAT_CHAIN>>}

(***************************************************************************)
(* C1.  Ownership isolation: when a chain holds rules tagged for two       *)
(* sessions A and B, remove_rules_for_suid(A, table, chain) deletes only   *)
(* rules whose tag decodes to owner A: every rule of another owner is      *)
(* listed afterwards as often as before.                                   *)
(***************************************************************************)
C1_OwnershipIsolation ==
  [][(/\ last'.op = "remove_rules_for_suid"
      /\ <<last'.table, last'.chain>> \in DOMAIN fw
      /\ \E i \in 1..Len(fw[<<last'.table, last'.chain>>]) :
           LET a == Tag(fw[<<last'.table, last'.chain>>][i])
           IN a.ok /\ a.suid = last'.suid)
     => \A k \in DOMAIN fw : \A i \in 1..Len(fw[k]) :
          (Tag(fw[k][i]).ok /\ Tag(fw[k][i]).suid # last'.suid) => Kept(k, fw[k][i])]_vars

(***************************************************************************)
(* C2.  A live session is protected from garbage collection: a tagged rule *)
(* whose owner has a heartbeat file younger than ttl / 2 when              *)
(* cleanup_stale_rules(ttl) runs is still there afterwards, whatever the   *)
(* rule's age.                                                             *)
(***************************************************************************)
C2_LiveSessionProtected ==
  [][last'.op = "cleanup_stale_rules"
     => \A k \in DOMAIN fw : \A i \in 1..Len(fw[k]) :
          (Tag(fw[k][i]).ok /\ HeartbeatFresh(Tag(fw[k][i]).suid, last'.ttl))
            => Kept(k, fw[k][i])]_vars

(***************************************************************************)
(* C3.  A rule whose tag carries NOT_DELETE is never removed by            *)
(* cleanup_stale_rules, whatever its age, its owner's heartbeat and the    *)
(* other rules of the chain.                                               *)
(***************************************************************************)
C3_PreservedNeverCollected ==
  [][last'.op = "cleanup_stale_rules"
     => \A k \in DOMAIN fw : \A i \in 1..Len(fw[k]) :
          (Tag(fw[k][i]).ok /\ Tag(fw[k][i]).preserve) => Kept(k, fw[k][i])]_vars

\* C3's case: a run of the collector has removed a rule and left, in the same
\* chain, a NOT_DELETE rule of an owner without heartbeat that is at least ttl old
C3_Witness ==
  /\ last.op = "cleanup_stale_rules"
  /\ last.removed >= 1
  /\ \E i \in 1..Len(fw[<<"filter", <<"OUTPUT">>>>]) :
       LET r == fw[<<"filter", <<"OUTPUT">>>>][i]
       IN /\ Tag(r).ok /\ Tag(r).preserve
          /\ Tag(r).suid \notin DOMAIN hb
          /\ RuleAge(r) >= last.ttl

(***************************************************************************)
(* C4.  Crash recovery: once ttl has elapsed since a session touched its   *)
(* heartbeat and installed its rules, cleanup_stale_rules(ttl) removes the *)
(* session's heartbeat file and every non-preserved rule tagged for it,    *)
(* and a second run right after it returns 0.                              *)
(***************************************************************************)
C4_CrashRecovery ==
  [][last'.op = "cleanup_stale_rules"
     => /\ \A s \in Suids :
             (/\ s \in DOMAIN hb
              /\ HeartbeatAge(s) >= last'.ttl
              /\ \A k \in DOMAIN fw : \A i \in 1..Len(fw[k]) :
                   (Tag(fw[k][i]).ok /\ Tag(fw[k][i]).suid = s)
                     => RuleAge(fw[k][i]) >= last'.ttl)
             => /\ s \notin DOMAIN hb'
                /\ \A k \in DOMAIN fw' : \A i \in 1..Len(fw'[k]) :
                     ~(/\ Tag(fw'[k][i]).ok
                       /\ Tag(fw'[k][i]).suid = s
                       /\ ~Tag(fw'[k][i]).preserve)
        /\ (last.op = "cleanup_stale_rules" /\ last.ttl = last'.ttl)
             => last'.removed = 0]_vars

(***************************************************************************)
(* C5.  The collector deletes a rule only when its owner has no fresh      *)
(* heartbeat and the rule is older than ttl: a tagged rule younger than    *)
(* ttl is never removed, even when its owner has no heartbeat file.        *)
(***************************************************************************)
C5_DeletesOnlyStaleAndOld ==
  [][last'.op = "cleanup_stale_rules"
     => \A k \in DOMAIN fw : \A i \in 1..Len(fw[k]) :
          (Tag(fw[k][i]).ok /\ Deleted(k, fw[k][i]))
            => /\ ~HeartbeatFresh(Tag(fw[k][i]).suid, last'.ttl)
               /\ RuleAge(fw[k][i]) > last'.ttl]_vars

(***************************************************************************)
(* C6.  The collector's decision: a tagged rule it lists that is not       *)
(* marked preserve is removed if and only if its owner's heartbeat is not  *)
(* fresh (no file, or a file of age >= ttl / 2) or the rule's age is       *)
(* >= ttl, for every ttl.                                                  *)
(***************************************************************************)
C6_DecisionRule ==
  [][last'.op = "cleanup_stale_rules"
     => \A k \in SweptKeys \cap DOMAIN fw : \A i \in 1..Len(fw[k]) :
          (Tag(fw[k][i]).ok /\ ~Tag(fw[k][i]).preserve)
            => (Occurrences(fw', k, fw[k][i]) = 0
                  <=> (\/ ~HeartbeatFresh(Tag(fw[k][i]).suid, last'.ttl)
                       \/ RuleAge(fw[k][i]) >= last'.ttl))]_vars

(***************************************************************************)
(* C7.  Start ordering: whenever AttackSession.start, with spoofing        *)
(* enabled, has invoked the generator's run(), start_spoofing was invoked  *)
(* and returned earlier in the same execution of start; run() is never     *)
(* invoked before spoofing start.                                          *)
(***************************************************************************)
C7_StartOrdering ==
  \A i \in 1..Len(calls) :
    (flags.enable_spoofing /\ calls[i] \in {"run", "run!"})
      => \E j \in 1..(i - 1) : calls[j] = "start_spoofing"

\* C7's case: a start with spoofing enabled has started spoofing and then run the generator
C7_Witness ==
  /\ flags.enable_spoofing
  /\ calls = <<"start_spoofing", "run">>

(***************************************************************************)
(* C8.  Stop ordering: whenever AttackSession.stop, with spoofing enabled, *)
(* has invoked the generator's stop(), stop_spoofing was invoked earlier   *)
(* in the same execution of stop, also when stop_spoofing raised.          *)
(***************************************************************************)
C8_StopOrdering ==
  \A i \in 1..Len(calls) :
    (flags.enable_spoofing /\ calls[i] \in {"stop", "stop!"})
      => \E j \in 1..(i - 1) : calls[j] \in {"stop_spoofing", "stop_spoofing!"}

\* C8's case: stop_spoofing raised and the generator's stop() was invoked after it
C8_Witness ==
  /\ flags.enable_spoofing
  /\ Len(calls) >= 2
  /\ calls[1] = "stop_spoofing!"
  /\ calls[2] = "stop"

(***************************************************************************)
(* C9.  Shutdown ordering: during StormShadow.stop, the attack-session     *)
(* stop and the spoofer stop it triggers included, no rule tagged with the *)
(* session's id is removed while the session's heartbeat file exists.      *)
(***************************************************************************)
C9_HeartbeatRemovedBeforeRules ==
  [][(/\ caller = "shutdown"
      /\ op # "down"
      /\ \E k \in DOMAIN fw : \E i \in 1..Len(fw[k]) :
           /\ Tag(fw[k][i]).ok
           /\ Tag(fw[k][i]).suid = OwnSuid
           /\ Deleted(k, fw[k][i]))
     => OwnSuid \notin DOMAIN hb]_vars

(***************************************************************************)
(* C10.  Attack-session state machine: over any sequence of start(),       *)
(* stop() and resume() calls on a session, its status moves from Stopped   *)
(* to Running only when the generator declares resume_implemented.         *)
(***************************************************************************)
C10_StoppedToRunningOnlyIfResumable ==
  [][(status = STOPPED /\ status' = RUNNING /\ caller' # "manager")
     => flags.resume_implemented]_vars

(***************************************************************************)
(* C11.  Exactly one verdict per packet: every packet handed to            *)
(* packet_spoofer has exactly one verdict, accept when parsing and         *)
(* rewriting succeeded and drop when an exception occurred, and no         *)
(* exception leaves the callback.                                          *)
(***************************************************************************)
C11_ExactlyOneVerdict ==
  \A i \in 1..Len(packet.handled) :
    /\ Len(packet.handled[i].verdicts) = 1
    /\ ~packet.handled[i].escaped
    /\ packet.handled[i].verdicts[1] =
         (IF packet.handled[i].payload = "udp" /\ packet.ips > 0 THEN "accept" ELSE "drop")

\* C11's case: the worker has accepted a rewritten datagram and dropped a packet
\* that failed to parse and one that had no UDP layer
C11_Witness ==
  /\ \E i \in 1..Len(packet.handled) : packet.handled[i].verdicts = <<"accept">>
  /\ \E i \in 1..Len(packet.handled) :
       packet.handled[i].payload = "garbage" /\ packet.handled[i].verdicts = <<"drop">>
  /\ \E i \in 1..Len(packet.handled) :
       packet.handled[i].payload = "tcp" /\ packet.handled[i].verdicts = <<"drop">>

(***************************************************************************)
(* C12.  Idempotent anchor: after calls of ensure_chain_and_anchor for an  *)
(* anchor chain, made one after the other with the same or different       *)
(* session ids, exactly one jump rule leads from the anchor chain into the *)
(* dedicated chain.                                                        *)
(***************************************************************************)
C12_IdempotentAnchor ==
  last.op = "ensure_chain_and_anchor" => JumpCount(fw, last.table, last.chain) = 1

(***************************************************************************)
(* C13.  Concurrent anchor creation: when two processes have both          *)
(* finished ensure_chain_and_anchor, whatever the interleaving of their    *)
(* commands, each anchor chain holds at most one jump rule into the        *)
(* dedicated chain and neither call has reported a failure.                *)
(***************************************************************************)
C13_ConcurrentAnchor ==
  (\A p \in Procs : anchor[p].pc \in {"done", "warned"})
    => /\ \A chain \in AnchorChains : JumpCount(fw, "filter", chain) <= 1
       /\ \A p \in Procs : anchor[p].pc = "done"

(***************************************************************************)
(* C14.  Tag round trip: decoding the comment built from (session id,      *)
(* created_ts, extra, preserve) yields exactly that tuple, also when extra *)
(* holds colons, is empty, or is or ends with the NOT_DELETE token while   *)
(* preserve is false; and a text that does not start with the tag prefix   *)
(* decodes to None.                                                        *)
(***************************************************************************)
C14_TagRoundTrip ==
  /\ tag.op = "round_trip"
       => tag.parsed = [ok |-> TRUE, suid |-> tag.suid, created_ts |-> tag.created_ts,
                        extra |-> tag.extra, preserve |-> tag.preserve]
  /\ (tag.op = "parse" /\ ~StartsWith(tag.comment, <<COMMENT_PREFIX>>))
       => tag.parsed = None

(***************************************************************************)
(* C15.  A rule whose comment does not decode as a tag of this system is   *)
(* never deleted by remove_rules_for_suid, remove_all_rules_for_suid or    *)
(* cleanup_stale_rules, even when its text holds the tag prefix and the    *)
(* session id being removed.                                               *)
(***************************************************************************)
C15_ForeignRulesKept ==
  [][\A k \in DOMAIN fw : \A i \in 1..Len(fw[k]) :
       ~Tag(fw[k][i]).ok => ~Deleted(k, fw[k][i])]_vars

\* the queue-dispatch rules of session s in the dedicated chain
QueueRuleCount(f, s) ==
  IF <<"filter", STORMSHADOW_CHAIN>> \notin DOMAIN f THEN 0
  ELSE Cardinality({i \in 1..Len(f[<<"filter", STORMSHADOW_CHAIN>>]) :
                      /\ Tag(f[<<"filter", STORMSHADOW_CHAIN>>][i]).ok
                      /\ Tag(f[<<"filter", STORMSHADOW_CHAIN>>][i]).suid = s})

\* the calls of the last operation that are call `call`
EventsOf(call) == {i \in 1..Len(coord.events) : coord.events[i].call = call}

(***************************************************************************)
(* C16.  No leaked binding on restart: after start_spoofing, also on a     *)
(* coordinator that was already bound by an earlier start_spoofing, at     *)
(* most one worker process and one queue-dispatch rule of the coordinator  *)
(* exist.                                                                  *)
(***************************************************************************)
C16_NoLeakedBinding ==
  coord.op = "start"
    => /\ Cardinality(coord.workers) <= 1
       /\ QueueRuleCount(fw, OwnSuid) <= 1

(***************************************************************************)
(* C17.  Readiness timeout is a failure: start_spoofing, when it launches  *)
(* a worker, returns True only if the worker's readiness notification was  *)
(* received within the timeout; after a timed-out wait it has returned     *)
(* False.                                                                  *)
(***************************************************************************)
C17_ReadinessTimeoutFails ==
  (coord.op = "start" /\ ~coord.dry_run /\ coord.returned = "True")
    => \E i \in EventsOf("wait_ready_signal") : coord.events[i].result = "ready"

(***************************************************************************)
(* C18.  Fallback before giving up: whenever the queue rule could not be   *)
(* installed, the worker launch raised or the worker could not bind its    *)
(* queue, start_spoofing has launched the raw-socket worker; and it has    *)
(* returned False only after the raw-socket launch was attempted and       *)
(* failed.                                                                 *)
(***************************************************************************)
C18_FallbackBeforeGivingUp ==
  (coord.op = "start" /\ ~coord.dry_run)
    => /\ (\E i \in 1..Len(coord.events) :
             coord.events[i] \in {Event("add_nfqueue_rule_tagged", "failed"),
                                  Event("run_python_spoofer", "raised"),
                                  Event("worker_bind", "OSError")})
            => EventsOf("run_python_raw_spoofer") # {}
       /\ coord.returned = "False"
            => \E i \in EventsOf("run_python_raw_spoofer") :
                 coord.events[i].result = "raised"

(***************************************************************************)
(* C19.  Termination escalation: in stop_spoofing with a worker handle,    *)
(* the first call is the graceful signal to the worker's process group;    *)
(* the forced kill of the group is sent only after the graceful wait timed *)
(* out; each signal is sent at most once and at most two waits are made,   *)
(* so the stop ends even if the worker never exits.                        *)
(***************************************************************************)
C19_TerminationEscalation ==
  (coord.op = "stop" /\ coord.events # <<>>)
    => /\ coord.events[1].call = "killpg_SIGTERM"
       /\ \A i \in EventsOf("killpg_SIGKILL") :
            \E j \in 1..(i - 1) : coord.events[j] = Event("wait_graceful", "TimeoutExpired")
       /\ Cardinality(EventsOf("killpg_SIGTERM")) = 1
       /\ Cardinality(EventsOf("killpg_SIGKILL")) <= 1
       /\ Cardinality(EventsOf("wait_graceful") \cup EventsOf("wait_forced")) <= 2
       /\ coord.returned \in {"True", "False"}
       /\ coord.spoofer_process = 0

\* C19's case: a stop sent SIGTERM to the group, waited in vain, killed the group
\* and saw the worker exit
C19_Witness ==
  /\ coord.op = "stop"
  /\ coord.events = <<Event("killpg_SIGTERM", "sent"),
                      Event("wait_graceful", "TimeoutExpired"),
                      Event("killpg_SIGKILL", "sent"),
                      Event("wait_forced", "exited")>>

HandlerReturned(handler) ==
  /\ entry.handler = handler
  /\ op # handler
  /\ (caller = "shutdown" => manager)

\* the rules of chain k that carry the tag of session s
TaggedRules(f, k, s) ==
  IF k \notin DOMAIN f THEN {}
  ELSE {i \in 1..Len(f[k]) : Tag(f[k][i]).ok /\ Tag(f[k][i]).suid = s}

(***************************************************************************)
(* C21.  Dry-run without generator support has no side effects: when       *)
(* AttackSession.start is called with dry_run set and the generator has    *)
(* dry_run_implemented unset, start returns without invoking               *)
(* start_spoofing or run() and leaves the status of the session as it was  *)
(* (Initialized for a new session).                                        *)
(***************************************************************************)
C21_DryRunStartHasNoSideEffects ==
  (entry.handler = "start" /\ flags.dry_run /\ ~flags.dry_run_implemented)
    => (calls = <<>> /\ status = entry.status)

(***************************************************************************)
(* C22.  stop transitions to Stopped: whenever AttackSession.stop was      *)
(* called on a Running session and has returned, the status is Stopped,    *)
(* also when the generator's stop() or stop_spoofing raised and also in    *)
(* dry-run mode.                                                           *)
(***************************************************************************)
C22_StopTransitionsToStopped ==
  (HandlerReturned("stop") /\ entry.status = RUNNING) => status = STOPPED

(***************************************************************************)
(* C23.  Defense-in-depth rule removal at stop: after AttackSession.stop   *)
(* returned, no rule tagged with the session's id remains in the dedicated *)
(* filter chain nor in the dedicated NAT chain, whether or not the         *)
(* spoofing teardown removed anything and whether or not the generator's   *)
(* stop() failed.                                                          *)
(***************************************************************************)
C23_NoTaggedRuleAfterStop ==
  (HandlerReturned("stop") /\ entry.status # "none" /\ ~flags.dry_run)
    => /\ TaggedRules(fw, <<"filter", STORMSHADOW_CHAIN>>, OwnSuid) = {}
       /\ TaggedRules(fw, <<"nat", STORMSHADOW_NAT_CHAIN>>, OwnSuid) = {}

(***************************************************************************)
(* C24.  Resume: AttackSession.resume invokes the generator's resume() and *)
(* sets status Running only when the generator declares                    *)
(* resume_implemented, and otherwise leaves status and generator           *)
(* untouched; when the generator's resume() raises, the status becomes     *)
(* Failed and the generator's cleanup() is invoked exactly once; Failed is *)
(* reached by no other path.                                               *)
(***************************************************************************)
C24_Resume ==
  /\ [](entry.handler = "resume" =>
          /\ ~flags.resume_implemented => (calls = <<>> /\ status = entry.status)
          /\ Count(calls, "resume") + Count(calls, "resume!") <= 1
          /\ Count(calls, "resume!") = 1
               => (status = FAILED /\ calls = <<"resume!", "cleanup">>)
          /\ Count(calls, "resume!") = 0
               => (Count(calls, "cleanup") = 0 /\ (status = FAILED => entry.status = FAILED)))
  /\ [][(status' = FAILED /\ status # FAILED)
          => (entry.handler = "resume" /\ calls' = <<"resume!", "cleanup">>)]_vars

\* C24's case: a resumable generator's resume() raised
C24_Witness ==
  /\ entry.handler = "resume"
  /\ flags.resume_implemented
  /\ entry.status = STOPPED
  /\ calls = <<"resume!", "cleanup">>
  /\ status = FAILED

\* how many of the first n packets made the callback call get_spoofed_ip
CallsBefore(n) == Cardinality({j \in 1..n : packet.handled[j].called})

(***************************************************************************)
(* C25.  Round-robin determinism: for a pool of length L >= 1, the k-th    *)
(* call (k = 0, 1, 2, ...) of Spoofer.get_spoofed_ip returns pool[k mod L] *)
(* and after every call the cursor equals (k + 1) mod L and lies in        *)
(* 0..L-1.                                                                 *)
(***************************************************************************)
C25_RoundRobin ==
  packet.ips >= 1 =>
    /\ packet.next_ip_number \in 0..(packet.ips - 1)
    /\ \A i \in 1..Len(packet.handled) :
         packet.handled[i].called =>
           /\ packet.handled[i].ip = Host(CallsBefore(i - 1) % packet.ips)
           /\ packet.handled[i].next_ip_number = (CallsBefore(i - 1) + 1) % packet.ips

\* C25's case: a pool of two addresses has been asked three times, so the
\* cursor wrapped
C25_Witness ==
  /\ packet.ips = 2
  /\ CallsBefore(Len(packet.handled)) >= 3

(***************************************************************************)
(* C26.  Packet rewrite: every packet that packet_spoofer accepts has had  *)
(* its source address set to the address get_spoofed_ip returned for that  *)
(* packet and its source port set to a port p with 49152 <= p <= 65535,    *)
(* and its stored IP and UDP checksums deleted before it was serialised;   *)
(* destination address, destination port and payload are unchanged.        *)
(***************************************************************************)
C26_PacketRewrite ==
  \A i \in 1..Len(packet.handled) :
    packet.handled[i].verdicts = <<"accept">> =>
      /\ packet.handled[i].sent.ok
      /\ packet.handled[i].called
      /\ packet.handled[i].sent.src = packet.handled[i].ip
      /\ packet.handled[i].sent.src
           = Host(IF i = 1 THEN 0 ELSE packet.handled[i - 1].next_ip_number)
      /\ packet.handled[i].sent.sport >= 49152
      /\ packet.handled[i].sent.sport <= 65535
      /\ packet.handled[i].sent.ip_chksum = "recomputed"
      /\ packet.handled[i].sent.udp_chksum = "recomputed"
      /\ packet.handled[i].sent.dst = Datagram.dst
      /\ packet.handled[i].sent.dport = Datagram.dport
      /\ packet.handled[i].sent.data = Datagram.data

\* C26's case: the worker accepted one packet with the lowest and one with
\* the highest port of the range
C26_Witness ==
  /\ \E i \in 1..Len(packet.handled) :
       packet.handled[i].verdicts = <<"accept">> /\ packet.handled[i].sent.sport = 49152
  /\ \E i \in 1..Len(packet.handled) :
       packet.handled[i].verdicts = <<"accept">> /\ packet.handled[i].sent.sport = 65535

WorkerEvents(e) == {i \in 1..Len(worker.events) : worker.events[i] = e}

(***************************************************************************)
(* C28.  Readiness only after bind: the worker sends its readiness         *)
(* notification only after the queue bind succeeded and before it          *)
(* processes packets; when the bind fails it sends no notification and     *)
(* exits with a non-zero code; on a termination signal after a successful  *)
(* bind it exits with code zero.                                           *)
(***************************************************************************)
C28_ReadinessOnlyAfterBind ==
  /\ \A i \in WorkerEvents("ready") \cup WorkerEvents("ready!") :
       \E j \in WorkerEvents("bind") : j < i
  /\ packet.handled # <<>> => WorkerEvents("ready") # {}
  /\ WorkerEvents("bind!") # {}
       => /\ WorkerEvents("ready") \cup WorkerEvents("ready!") = {}
          /\ ~worker.alive
          /\ worker.exit_code # 0
  /\ \A i \in WorkerEvents("signal") :
       (\E j \in WorkerEvents("bind") : j < i) => (~worker.alive /\ worker.exit_code = 0)

\* C28's case: the worker bound the queue, signalled readiness, handled a
\* packet and was then terminated by a signal
C28_Witness ==
  /\ WorkerEvents("bind") # {}
  /\ WorkerEvents("ready") # {}
  /\ packet.handled # <<>>
  /\ WorkerEvents("signal") # {}
  /\ worker.exit_code = 0

(***************************************************************************)
(* C29.  Best-effort handshake under interleaving: under any interleaving  *)
(* of the coordinator (launch the worker, then create and listen on the    *)
(* readiness socket) and the worker (bind the queue, then send the         *)
(* notification), a notification that cannot be delivered because the      *)
(* coordinator is not listening never terminates the worker or keeps it    *)
(* from entering its packet-processing loop.                               *)
(***************************************************************************)
C29_UndeliveredReadinessIsHarmless ==
  WorkerEvents("ready!") # {}
    => \/ worker.alive /\ worker.todo = <<"run">>
       \/ WorkerEvents("signal") # {}

(***************************************************************************)
(* C30.  Garbage collection never raises: cleanup_stale_rules always       *)
(* returns an integer count and never lets an exception out, for every     *)
(* outcome of the firewall commands inside it (non-zero exit, missing      *)
(* tool, dry-run refusal) and every heartbeat-file error.                  *)
(***************************************************************************)
C30_GarbageCollectionNeverRaises ==
  last.op = "cleanup_stale_rules_under"
    => /\ ~last.raised
       /\ last.removed \in Nat

(***************************************************************************)
(* C31.  remove_rules_for_suid never throws and counts faithfully: for     *)
(* every outcome of the listing and of the deletions (a chain that does    *)
(* not exist counts as zero matching rules) it returns without raising,    *)
(* its result is the number of rules whose deletion succeeded, and the     *)
(* rules whose deletion failed remain in the chain.                        *)
(***************************************************************************)
C31_RemoveNeverThrowsAndCounts ==
  [][last'.op = "remove_rules_for_suid_under"
       => /\ ~last'.raised
          /\ last'.removed = TotalRules(fw) - TotalRules(fw')
          /\ <<last'.table, last'.chain>> \in last'.env.failing => fw' = fw]_vars

TeardownKeys ==
  {<<"filter", FilterAnchors[i]>> : i \in 1..3}
    \cup {<<"nat", NatAnchors[i]>> : i \in 1..3}
    \cup {<<"filter", STORMSHADOW_CHAIN>>, <<"nat", STORMSHADOW_NAT_CHAIN>>}

\* the rules of firewall f in the swept chains whose tag decodes to owner s
OwnedSlots(f, s) ==
  {x \in RuleSlots(f) :
     x[1] \in TeardownKeys /\ Tag(f[x[1]][x[2]]).ok /\ Tag(f[x[1]][x[2]]).suid = s}

(***************************************************************************)
(* C33.  Full teardown sweep: after remove_all_rules_for_suid(A) returns   *)
(* with no firewall-tool failure, no rule tagged with owner A remains in   *)
(* filter INPUT, OUTPUT, FORWARD, nat OUTPUT, PREROUTING, POSTROUTING or   *)
(* the two dedicated chains, and the count it returns is the number of     *)
(* rules of A that those chains held before the call.                      *)
(***************************************************************************)
C33_FullTeardownSweep ==
  [][last'.op = "remove_all_rules_for_suid"
       => /\ OwnedSlots(fw', last'.suid) = {}
          /\ last'.removed = Cardinality(OwnedSlots(fw, last'.suid))]_vars

(***************************************************************************)
(* C34.  Heartbeat gone after clean shutdown: once StormShadow.stop has    *)
(* returned, the heartbeat file of the session does not exist and is never *)
(* created again by this process, under every interleaving of stop (set    *)
(* the stop event, join the thread for two seconds, remove the file) with  *)
(* the heartbeat thread (touch, wait, touch).                              *)
(***************************************************************************)
C34_HeartbeatGoneAfterStop ==
  (storms[1].stopped /\ storms[1].todo = <<>>) => OwnSuid \notin DOMAIN hb

(***************************************************************************)
(* C36.  Shared session id of the graphical manager: when the manager      *)
(* holds several StormShadow instances with one session id, stopping one   *)
(* instance removes neither the heartbeat file nor a tagged firewall rule  *)
(* that another instance, still running, relies on, so that the heartbeat  *)
(* file exists at every moment while an instance with that session id      *)
(* runs.  The formula is about the step in which stop removes the file and *)
(* the rules while another instance runs: the file, if there is one, and   *)
(* every rule are still there after it.                                    *)
(***************************************************************************)
C36_StopSparesRunningInstances ==
  [][\A i \in Instances :
       (/\ storms[i].todo = <<"cleanup">> /\ storms'[i].todo = <<>>
        /\ \E j \in Instances \ {i} : storms[j].is_running /\ storms[j].todo = <<>>)
       => /\ OwnSuid \in DOMAIN hb => OwnSuid \in DOMAIN hb'
          /\ fw' = fw]_vars

\* filter/OUTPUT of firewall f holds a jump into the dedicated chain whose tag
\* decodes to owner s
AnchoredBy(f, s) ==
  \E i \in 1..Len(f[<<"filter", <<"OUTPUT">>>>]) :
    LET r == f[<<"filter", <<"OUTPUT">>>>][i]
    IN r.target = STORMSHADOW_CHAIN /\ Tag(r).ok /\ Tag(r).suid = s

(***************************************************************************)
(* C35.  The anchor survives other sessions' teardown: when sessions A and *)
(* B both have queue rules in the dedicated chain and A inserted and       *)
(* tagged a jump into that chain, a clean shutdown of A                    *)
(* (remove_all_rules_for_suid(A)) or a garbage collection leaves B's       *)
(* traffic reaching the dedicated chain: while B has a rule in the         *)
(* dedicated chain, at least one jump into that chain exists.              *)
(***************************************************************************)
C35_AnchorSurvivesTeardown ==
  [][\A a, b \in Suids :
       (/\ a # b
        /\ AnchoredBy(fw, a)
        /\ QueueRuleCount(fw, a) > 0 /\ QueueRuleCount(fw, b) > 0
        /\ \/ last'.op = "remove_all_rules_for_suid" /\ last'.suid = a
           \/ last'.op = "cleanup_stale_rules")
       => (QueueRuleCount(fw', b) > 0 => JumpCount(fw', "filter", <<"OUTPUT">>) > 0)]_vars

(***************************************************************************)
(* C37.  A live heartbeat is always fresh under the reference policy: for  *)
(* a running session whose thread touches the heartbeat at the start and   *)
(* every 50 minutes, the age of the heartbeat is at every moment below the *)
(* freshness threshold of cleanup_stale_rules with the default ttl of two  *)
(* hours (half the ttl, 60 minutes) and below the threshold of deletion    *)
(* (the ttl), so a garbage collection run by another process at any time   *)
(* finds the heartbeat fresh and does not delete the file.                 *)
(***************************************************************************)
C37_LiveHeartbeatAlwaysFresh ==
  /\ OwnSuid \in DOMAIN hb
  /\ now - hb[OwnSuid] < half_ttl(DEFAULT_TTL_SECONDS)
  /\ now - hb[OwnSuid] < DEFAULT_TTL_SECONDS
  /\ half_ttl(DEFAULT_TTL_SECONDS) = 60 * 60
  /\ hb_fresh(hb, OwnSuid, DEFAULT_TTL_SECONDS, now)
  /\ cleanup_stale_heartbeats(hb, DEFAULT_TTL_SECONDS, now) = hb

\* the collector has run when the heartbeat was as old as it gets, a whole
\* interval, and the file is there
C37_Witness ==
  /\ last.op = "cleanup_stale_rules"
  /\ OwnSuid \in DOMAIN hb
  /\ now - hb[OwnSuid] = interval
  /\ now > interval

(***************************************************************************)
(* C38.  AttackManager.start while an attack is running: if start is       *)
(* called while the attack session the manager holds is Running, that      *)
(* session is stopped (its stop is invoked) before a new attack is         *)
(* started, so that at most one attack session started by the manager is   *)
(* Running at any time.                                                    *)
(***************************************************************************)
C38_RunningSessionStoppedFirst ==
  [][(/\ attacks.current_attack # 0
      /\ attacks.sessions[attacks.current_attack] = RUNNING
      /\ \E i \in 1..Len(attacks'.calls) : attacks'.calls[i][1] \in {"start", "resume"})
     => /\ attacks'.calls[1] = <<"stop", attacks.current_attack>>
        /\ Cardinality({i \in 1..Len(attacks'.sessions) : attacks'.sessions[i] = RUNNING}) <= 1]_vars

\* C39: on a coordinator with dry_run set, start_spoofing and stop_spoofing
\* make no call (no firewall or ipset command, no worker launch, no signal)
\* and return True, and no such call changes the firewall rules, the worker
\* handle or the set of worker processes.
C39_DryRunInert ==
  /\ [](coord.dry_run =>
          /\ coord.events = <<>>
          /\ coord.returned # "False"
          /\ coord.op # "none" => coord.returned = "True"
          /\ coord.spoofer_process = 0
          /\ coord.workers = {}
          /\ coord.launched = 0)
  /\ [][(coord.dry_run /\ last'.op \in {"start_spoofing", "stop_spoofing"})
          => /\ fw' = fw
             /\ coord'.spoofer_process = coord.spoofer_process
             /\ coord'.workers = coord.workers]_vars

\* C39 witness: a dry-run coordinator whose start_spoofing and then
\* stop_spoofing have returned while the session's queue rule, installed by
\* another process, is in the dedicated chain.
C39_Witness ==
  /\ coord.dry_run
  /\ coord.starts > 0
  /\ coord.op = "stop"
  /\ last.op = "stop_spoofing"
  /\ QueueRuleCount(fw, OwnSuid) > 0
  /\ QueueRuleCount(fw, PeerSuid) > 0

\* the calls that send a signal to a process
SignalCalls == {"killpg_SIGTERM", "terminate", "killpg_SIGKILL"}

\* C40: stop_spoofing on a coordinator without a worker handle (never
\* started, or stopped just before) returns, sends no signal, removes no rule
\* of another session and leaves the handle empty; after any stop_spoofing
\* the handle is empty, whatever the signals and waits did.
C40_StopIdempotentAndSafe ==
  /\ [](coord.op = "stop" /\ ~coord.dry_run => coord.spoofer_process = 0)
  /\ [][(last'.op = "stop_spoofing" /\ coord.spoofer_process = 0)
          => /\ coord'.returned \in {"True", "False"}
             /\ \A i \in 1..Len(coord'.events) : coord'.events[i].call \notin SignalCalls
             /\ coord'.spoofer_process = 0
             /\ \A s \in Suids \ {OwnSuid} :
                  QueueRuleCount(fw', s) = QueueRuleCount(fw, s)]_vars

====
